---- MODULE Spec2Model ----
(***************************************************************************)
(* A model of kelbon/HPACK (RFC 7541 header compression): the dynamic      *)
(* table, the integer / string codecs, the encoder, the decoder and the    *)
(* chunked (stream) decoder.                                               *)
(*                                                                         *)
(* Strings (std::string_view, header names and values) are sequences of    *)
(* octets 0..255; the wire is a sequence of octets.  Every function of     *)
(* the library is an operator that maps the object's state before the     *)
(* call to its state after it; the actions of the specifications apply     *)
(* them to the objects held in the variables.                              *)
(***************************************************************************)
EXTENDS Integers, Sequences, FiniteSets, TLC

VARIABLES
    tab,     \* a dynamic_table_t under direct use (dynamic_table.hpp:14)
    other,   \* a second dynamic_table_t, source / destination of moves
    ref,     \* the reference deque test_dyntab_t fed the same add_entry calls
    onlyAdds,\* TRUE while tab has seen add_entry calls only since construction
    op,      \* the last operation applied: its arguments, result and the
             \* table before it
    steps,   \* operations applied so far, where a specification counts them
    cfg,     \* the template arguments <Cache, Huffman> of encode
    enc,     \* encoder::dyntab of the sending side
    dec,     \* decoder::dyntab of the receiver that decodes whole blocks
    sdec,    \* the stream_decoder of a second receiver with its decoder's
             \* table: [tab, incomplete]
    wire,    \* octets written by the encoder, not yet given to
             \* decode_headers_block
    stream,  \* the same octets, not yet given to stream_decoder::feed
    sent,    \* the headers given to the encoder, in order
    recv,    \* the headers the visitor of decode_headers_block received
    srecv,   \* the headers the visitor of feed received
    derr,    \* "ok" or the error decode_headers_block threw
    serr,    \* "ok" or the error feed threw
    dstr     \* a decoded_string that decode_string is given again and again:
             \* [data, sz, allocated_sz_log2]

tableVars == <<tab, other, ref, onlyAdds, op>>

wireVars == <<cfg, enc, dec, sdec, wire, stream, sent, recv, srecv, derr, serr,
              dstr>>

vars == <<tab, other, ref, onlyAdds, op, steps,
          cfg, enc, dec, sdec, wire, stream, sent, recv, srecv, derr, serr, dstr>>

-----------------------------------------------------------------------------
(* Bounds of the model *)

\* add_entry calls on one table (caps _insert_count)
MaxInserts == 4

\* operations on the two tables of SpecMove
MaxMoveSteps == 4

\* headers given to encode in one run of SpecBlock
MaxHeaders == 3

\* calls of the encoder in one run of SpecOps
MaxOps == 2

\* calls of the encoder in one run of SpecStream
MaxStreamOps == 2

\* representations in one block of SpecFeed
MaxReps == 2

\* calls of feed on one block
MaxFeeds == 3

\* representations in one block of SpecHint
MaxHintReps == 2

\* calls on the encoder in one run of SpecEnc
MaxEncCalls == 3

\* calls of decode_response_status and encode_status in one run of SpecStatus
MaxStatusCalls == 2

\* calls of ignore_headers_block and decode_headers_block in one run of
\* SpecIgnore
MaxBlockCalls == 2

\* calls on the encoder in one run of SpecResize
MaxResizeOps == 4

\* calls of decode_header in one run of SpecRaw
MaxRawOps == 3

\* continuation octets of an integer a peer sends in SpecInt
MaxCont == 6

\* the integers 0..MaxSmall are encoded in SpecInt, besides the large ones
MaxSmall == 300

\* octets of a string of SpecStr drawn from StrAlphabet
MaxStrLen == 3
\* the longest string decoded into the decoded_string of SpecBuffer
MaxBufLen == 2
\* the number of calls on the decoded_string of SpecBuffer
MaxStringCalls == 2

-----------------------------------------------------------------------------
(* Basic types (basic_types.hpp) *)

\* static_table_t::first_unused_index: the enum value after the 61 entries
first_unused_index == 62

\* decoded_string(): data is 0 for nullptr, -1 for a view of the input, and
\* the number of the call that allocated it for a buffer of malloc
NewString == [data |-> 0, sz |-> 0, allocated_sz_log2 |-> -1]

\* find_result_t{}: not found
NotFound == [header_name_index |-> 0, value_indexed |-> FALSE]

\* What a read of freed memory of Len(s) octets yields when the allocator has
\* overwritten it (0xDD fill); the other outcome is the old content s.
Junk(s) == [i \in 1..Len(s) |-> 221]

\* A read through a string_view whose storage has been destroyed: undefined
\* behaviour, either outcome.  g is the outcome the run takes.
ReadFreed(g, s) == IF g THEN Junk(s) ELSE s

\* A std::string_view: the octets it shows and, when it points into an entry
\* of a dynamic table, that entry's _insert_c (0: storage the table does not
\* own).
View(s, owner) == [str |-> s, owner |-> owner]

-----------------------------------------------------------------------------
(* The static table (hpack/static_table.def: RFC 7541 Appendix A) *)

\* entry i of the static table, 1 <= i <= 61; value <<>> when the entry has none
StaticTable == <<
    [name |-> <<58, 97, 117, 116, 104, 111, 114, 105, 116, 121>>, value |-> <<>>],  \* 1 :authority 
    [name |-> <<58, 109, 101, 116, 104, 111, 100>>, value |-> <<71, 69, 84>>],  \* 2 :method GET
    [name |-> <<58, 109, 101, 116, 104, 111, 100>>, value |-> <<80, 79, 83, 84>>],  \* 3 :method POST
    [name |-> <<58, 112, 97, 116, 104>>, value |-> <<47>>],  \* 4 :path /
    [name |-> <<58, 112, 97, 116, 104>>, value |-> <<47, 105, 110, 100, 101, 120, 46, 104, 116, 109, 108>>],  \* 5 :path /index.html
    [name |-> <<58, 115, 99, 104, 101, 109, 101>>, value |-> <<104, 116, 116, 112>>],  \* 6 :scheme http
    [name |-> <<58, 115, 99, 104, 101, 109, 101>>, value |-> <<104, 116, 116, 112, 115>>],  \* 7 :scheme https
    [name |-> <<58, 115, 116, 97, 116, 117, 115>>, value |-> <<50, 48, 48>>],  \* 8 :status 200
    [name |-> <<58, 115, 116, 97, 116, 117, 115>>, value |-> <<50, 48, 52>>],  \* 9 :status 204
    [name |-> <<58, 115, 116, 97, 116, 117, 115>>, value |-> <<50, 48, 54>>],  \* 10 :status 206
    [name |-> <<58, 115, 116, 97, 116, 117, 115>>, value |-> <<51, 48, 52>>],  \* 11 :status 304
    [name |-> <<58, 115, 116, 97, 116, 117, 115>>, value |-> <<52, 48, 48>>],  \* 12 :status 400
    [name |-> <<58, 115, 116, 97, 116, 117, 115>>, value |-> <<52, 48, 52>>],  \* 13 :status 404
    [name |-> <<58, 115, 116, 97, 116, 117, 115>>, value |-> <<53, 48, 48>>],  \* 14 :status 500
    [name |-> <<97, 99, 99, 101, 112, 116, 45, 99, 104, 97, 114, 115, 101, 116>>, value |-> <<>>],  \* 15 accept-charset 
    [name |-> <<97, 99, 99, 101, 112, 116, 45, 101, 110, 99, 111, 100, 105, 110, 103>>, value |-> <<103, 122, 105, 112, 44, 32, 100, 101, 102, 108, 97, 116, 101>>],  \* 16 accept-encoding gzip, deflate
    [name |-> <<97, 99, 99, 101, 112, 116, 45, 108, 97, 110, 103, 117, 97, 103, 101>>, value |-> <<>>],  \* 17 accept-language 
    [name |-> <<97, 99, 99, 101, 112, 116, 45, 114, 97, 110, 103, 101, 115>>, value |-> <<>>],  \* 18 accept-ranges 
    [name |-> <<97, 99, 99, 101, 112, 116>>, value |-> <<>>],  \* 19 accept 
    [name |-> <<97, 99, 99, 101, 115, 115, 45, 99, 111, 110, 116, 114, 111, 108, 45, 97, 108, 108, 111, 119, 45, 111, 114, 105, 103, 105, 110>>, value |-> <<>>],  \* 20 access-control-allow-origin 
    [name |-> <<97, 103, 101>>, value |-> <<>>],  \* 21 age 
    [name |-> <<97, 108, 108, 111, 119>>, value |-> <<>>],  \* 22 allow 
    [name |-> <<97, 117, 116, 104, 111, 114, 105, 122, 97, 116, 105, 111, 110>>, value |-> <<>>],  \* 23 authorization 
    [name |-> <<99, 97, 99, 104, 101, 45, 99, 111, 110, 116, 114, 111, 108>>, value |-> <<>>],  \* 24 cache-control 
    [name |-> <<99, 111, 110, 116, 101, 110, 116, 45, 100, 105, 115, 112, 111, 115, 105, 116, 105, 111, 110>>, value |-> <<>>],  \* 25 content-disposition 
    [name |-> <<99, 111, 110, 116, 101, 110, 116, 45, 101, 110, 99, 111, 100, 105, 110, 103>>, value |-> <<>>],  \* 26 content-encoding 
    [name |-> <<99, 111, 110, 116, 101, 110, 116, 45, 108, 97, 110, 103, 117, 97, 103, 101>>, value |-> <<>>],  \* 27 content-language 
    [name |-> <<99, 111, 110, 116, 101, 110, 116, 45, 108, 101, 110, 103, 116, 104>>, value |-> <<>>],  \* 28 content-length 
    [name |-> <<99, 111, 110, 116, 101, 110, 116, 45, 108, 111, 99, 97, 116, 105, 111, 110>>, value |-> <<>>],  \* 29 content-location 
    [name |-> <<99, 111, 110, 116, 101, 110, 116, 45, 114, 97, 110, 103, 101>>, value |-> <<>>],  \* 30 content-range 
    [name |-> <<99, 111, 110, 116, 101, 110, 116, 45, 116, 121, 112, 101>>, value |-> <<>>],  \* 31 content-type 
    [name |-> <<99, 111, 111, 107, 105, 101>>, value |-> <<>>],  \* 32 cookie 
    [name |-> <<100, 97, 116, 101>>, value |-> <<>>],  \* 33 date 
    [name |-> <<101, 116, 97, 103>>, value |-> <<>>],  \* 34 etag 
    [name |-> <<101, 120, 112, 101, 99, 116>>, value |-> <<>>],  \* 35 expect 
    [name |-> <<101, 120, 112, 105, 114, 101, 115>>, value |-> <<>>],  \* 36 expires 
    [name |-> <<102, 114, 111, 109>>, value |-> <<>>],  \* 37 from 
    [name |-> <<104, 111, 115, 116>>, value |-> <<>>],  \* 38 host 
    [name |-> <<105, 102, 45, 109, 97, 116, 99, 104>>, value |-> <<>>],  \* 39 if-match 
    [name |-> <<105, 102, 45, 109, 111, 100, 105, 102, 105, 101, 100, 45, 115, 105, 110, 99, 101>>, value |-> <<>>],  \* 40 if-modified-since 
    [name |-> <<105, 102, 45, 110, 111, 110, 101, 45, 109, 97, 116, 99, 104>>, value |-> <<>>],  \* 41 if-none-match 
    [name |-> <<105, 102, 45, 114, 97, 110, 103, 101>>, value |-> <<>>],  \* 42 if-range 
    [name |-> <<105, 102, 45, 117, 110, 109, 111, 100, 105, 102, 105, 101, 100, 45, 115, 105, 110, 99, 101>>, value |-> <<>>],  \* 43 if-unmodified-since 
    [name |-> <<108, 97, 115, 116, 45, 109, 111, 100, 105, 102, 105, 101, 100>>, value |-> <<>>],  \* 44 last-modified 
    [name |-> <<108, 105, 110, 107>>, value |-> <<>>],  \* 45 link 
    [name |-> <<108, 111, 99, 97, 116, 105, 111, 110>>, value |-> <<>>],  \* 46 location 
    [name |-> <<109, 97, 120, 45, 102, 111, 114, 119, 97, 114, 100, 115>>, value |-> <<>>],  \* 47 max-forwards 
    [name |-> <<112, 114, 111, 120, 121, 45, 97, 117, 116, 104, 101, 110, 116, 105, 99, 97, 116, 101>>, value |-> <<>>],  \* 48 proxy-authenticate 
    [name |-> <<112, 114, 111, 120, 121, 45, 97, 117, 116, 104, 111, 114, 105, 122, 97, 116, 105, 111, 110>>, value |-> <<>>],  \* 49 proxy-authorization 
    [name |-> <<114, 97, 110, 103, 101>>, value |-> <<>>],  \* 50 range 
    [name |-> <<114, 101, 102, 101, 114, 101, 114>>, value |-> <<>>],  \* 51 referer 
    [name |-> <<114, 101, 102, 114, 101, 115, 104>>, value |-> <<>>],  \* 52 refresh 
    [name |-> <<114, 101, 116, 114, 121, 45, 97, 102, 116, 101, 114>>, value |-> <<>>],  \* 53 retry-after 
    [name |-> <<115, 101, 114, 118, 101, 114>>, value |-> <<>>],  \* 54 server 
    [name |-> <<115, 101, 116, 45, 99, 111, 111, 107, 105, 101>>, value |-> <<>>],  \* 55 set-cookie 
    [name |-> <<115, 116, 114, 105, 99, 116, 45, 116, 114, 97, 110, 115, 112, 111, 114, 116, 45, 115, 101, 99, 117, 114, 105, 116, 121>>, value |-> <<>>],  \* 56 strict-transport-security 
    [name |-> <<116, 114, 97, 110, 115, 102, 101, 114, 45, 101, 110, 99, 111, 100, 105, 110, 103>>, value |-> <<>>],  \* 57 transfer-encoding 
    [name |-> <<117, 115, 101, 114, 45, 97, 103, 101, 110, 116>>, value |-> <<>>],  \* 58 user-agent 
    [name |-> <<118, 97, 114, 121>>, value |-> <<>>],  \* 59 vary 
    [name |-> <<118, 105, 97>>, value |-> <<>>],  \* 60 via 
    [name |-> <<119, 119, 119, 45, 97, 117, 116, 104, 101, 110, 116, 105, 99, 97, 116, 101>>, value |-> <<>>]  \* 61 www-authenticate 
>>

-----------------------------------------------------------------------------
(* The Huffman code (hpack/huffman_table.def: RFC 7541 Appendix B) *)

\* the end-of-string symbol
EOS == 256

\* symbol -> <<code, length in bits>>, for the octets the model's strings and
\* the static table use, and EOS
HuffmanTable ==
    0 :> <<8184, 13>> @@
    1 :> <<8388568, 23>> @@
    10 :> <<1073741820, 30>> @@
    32 :> <<20, 6>> @@
    33 :> <<1016, 10>> @@
    34 :> <<1017, 10>> @@
    37 :> <<21, 6>> @@
    38 :> <<248, 8>> @@
    42 :> <<249, 8>> @@
    44 :> <<250, 8>> @@
    45 :> <<22, 6>> @@
    46 :> <<23, 6>> @@
    47 :> <<24, 6>> @@
    48 :> <<0, 5>> @@
    49 :> <<1, 5>> @@
    50 :> <<2, 5>> @@
    51 :> <<25, 6>> @@
    52 :> <<26, 6>> @@
    53 :> <<27, 6>> @@
    54 :> <<28, 6>> @@
    55 :> <<29, 6>> @@
    56 :> <<30, 6>> @@
    57 :> <<31, 6>> @@
    58 :> <<92, 7>> @@
    59 :> <<251, 8>> @@
    61 :> <<32, 6>> @@
    65 :> <<33, 6>> @@
    66 :> <<93, 7>> @@
    67 :> <<94, 7>> @@
    68 :> <<95, 7>> @@
    69 :> <<96, 7>> @@
    70 :> <<97, 7>> @@
    71 :> <<98, 7>> @@
    72 :> <<99, 7>> @@
    73 :> <<100, 7>> @@
    74 :> <<101, 7>> @@
    75 :> <<102, 7>> @@
    76 :> <<103, 7>> @@
    77 :> <<104, 7>> @@
    78 :> <<105, 7>> @@
    79 :> <<106, 7>> @@
    80 :> <<107, 7>> @@
    81 :> <<108, 7>> @@
    82 :> <<109, 7>> @@
    83 :> <<110, 7>> @@
    84 :> <<111, 7>> @@
    85 :> <<112, 7>> @@
    86 :> <<113, 7>> @@
    87 :> <<114, 7>> @@
    88 :> <<252, 8>> @@
    89 :> <<115, 7>> @@
    90 :> <<253, 8>> @@
    95 :> <<34, 6>> @@
    97 :> <<3, 5>> @@
    98 :> <<35, 6>> @@
    99 :> <<4, 5>> @@
    100 :> <<36, 6>> @@
    101 :> <<5, 5>> @@
    102 :> <<37, 6>> @@
    103 :> <<38, 6>> @@
    104 :> <<39, 6>> @@
    105 :> <<6, 5>> @@
    106 :> <<116, 7>> @@
    107 :> <<117, 7>> @@
    108 :> <<40, 6>> @@
    109 :> <<41, 6>> @@
    110 :> <<42, 6>> @@
    111 :> <<7, 5>> @@
    112 :> <<43, 6>> @@
    113 :> <<118, 7>> @@
    114 :> <<44, 6>> @@
    115 :> <<8, 5>> @@
    116 :> <<9, 5>> @@
    117 :> <<45, 6>> @@
    118 :> <<119, 7>> @@
    119 :> <<120, 7>> @@
    120 :> <<121, 7>> @@
    121 :> <<122, 7>> @@
    122 :> <<123, 7>> @@
    60 :> <<32764, 15>> @@
    63 :> <<1020, 10>> @@
    92 :> <<524272, 19>> @@
    127 :> <<268435452, 28>> @@
    255 :> <<67108846, 26>> @@
    EOS :> <<1073741823, 30>>

\* static_table_t::get_entry
static_get_entry(index) == StaticTable[index]

\* static_table_t::find(name): the first entry with the name, 0 when none
RECURSIVE StaticFindFrom(_, _)
StaticFindFrom(name, i) ==
    IF i >= first_unused_index THEN 0
    ELSE IF StaticTable[i].name = name THEN i
         ELSE StaticFindFrom(name, i + 1)

static_find_name(name) == StaticFindFrom(name, 1)

\* the loop of static_table_t::find(name, value) from entry i: entries of one
\* name are adjacent; an entry of another name or without a value ends it
RECURSIVE StaticFindLoop(_, _, _, _)
\* the loop that reports a match without its index
StaticFindLoopFirst(name, value, i, r) ==
    IF i >= first_unused_index THEN r
    ELSE LET val == static_get_entry(i)
         IN IF val.name # name \/ val.value = <<>> THEN r
            ELSE IF val.value = value
                 THEN [header_name_index |-> r.header_name_index, value_indexed |-> TRUE]
                 ELSE StaticFindLoop(name, value, i + 1, r)

StaticFindLoop(name, value, i, r) ==
    IF i >= first_unused_index THEN r
    ELSE LET val == static_get_entry(i)
         IN IF val.name # name \/ val.value = <<>> THEN r
            ELSE IF val.value = value
                 THEN [header_name_index |-> i, value_indexed |-> TRUE]
                 ELSE StaticFindLoop(name, value, i + 1, r)

\* static_table_t::find(name, value)
static_find(name, value) ==
    LET i == static_find_name(name)
    IN IF i = 0 THEN NotFound
       ELSE StaticFindLoop(name, value, i,
                           [header_name_index |-> i, value_indexed |-> FALSE])

\* static_table_t::find_by_value(value): the first entry that has a value
\* and whose value it is, 0 when none
RECURSIVE FindByValueFrom(_, _)
FindByValueFrom(value, i) ==
    IF i >= first_unused_index THEN 0
    ELSE IF StaticTable[i].value # <<>> /\ StaticTable[i].value = value THEN i
         ELSE FindByValueFrom(value, i + 1)

find_by_value(value) == FindByValueFrom(value, 1)

\* the cases of the switch of find(index_type, value): the indexes of each
\* case group (method_get, method_post; path, path_index_html; scheme_http,
\* scheme_https; status_200 .. status_500; accept_encoding) and the values
\* fill_result is called with
FillCases ==
    {[names |-> {2, 3}, vals |-> {<<71, 69, 84>>, <<80, 79, 83, 84>>}],
     [names |-> {4, 5},
      vals |-> {<<47>>, <<47, 105, 110, 100, 101, 120, 46, 104, 116, 109, 108>>}],
     [names |-> {6, 7}, vals |-> {<<104, 116, 116, 112>>, <<104, 116, 116, 112, 115>>}],
     [names |-> 8..14,
      vals |-> {<<50, 48, 48>>, <<50, 48, 52>>, <<50, 48, 54>>, <<51, 48, 52>>,
                <<52, 48, 48>>, <<52, 48, 52>>, <<53, 48, 48>>}],
     [names |-> {16},
      vals |-> {<<103, 122, 105, 112, 44, 32, 100, 101, 102, 108, 97, 116, 101>>}]}

\* fill_result(vars...): value_indexed when the value is one of them, and
\* then the index find_by_value gives
fill_result(name, value, vals) ==
    IF value \in vals
    THEN [header_name_index |-> find_by_value(value), value_indexed |-> TRUE]
    ELSE [header_name_index |-> name, value_indexed |-> FALSE]

\* the result with the index given and nothing more
static_find_by_index_plain(name, value) ==
    IF name < first_unused_index /\ name # 0
    THEN [header_name_index |-> name, value_indexed |-> FALSE]
    ELSE NotFound

\* static_table_t::find(index_type name, value)
static_find_by_index(name, value) ==
    IF \E c \in FillCases : name \in c.names
    THEN fill_result(name, value, (CHOOSE c \in FillCases : name \in c.names).vals)
    ELSE IF name < first_unused_index /\ name # 0
         THEN [header_name_index |-> name, value_indexed |-> FALSE]
         ELSE NotFound

-----------------------------------------------------------------------------
(* dynamic_table_t (dynamic_table.hpp, dynamic_table.cpp) *)

\* dynamic_table_t(max_size): both limits initialised to max_size
NewTable(max_size) ==
    [entries |-> <<>>, set |-> <<>>, current_size |-> 0,
     max_size |-> max_size, user_protocol_max_size |-> max_size,
     insert_count |-> 0]

\* dynamic_table_t(max_size, protocol_max_size)
NewTable2(max_size, protocol_max_size) ==
    [NewTable(max_size) EXCEPT !.user_protocol_max_size = protocol_max_size]

\* entry_size: name + value + 32
entry_size(e) == Len(e.name) + Len(e.value) + 32

\* indexof
indexofNoCount(t, e) == first_unused_index + e.insert_c

indexof(t, e) == first_unused_index + (t.insert_count - e.insert_c)

current_max_index(t) == Len(t.entries) + first_unused_index - 1

\* get_entry with the offset of a dynamic index taken from the oldest end
get_entry_from_oldest(t, index) ==
    IF index < first_unused_index
    THEN [name |-> static_get_entry(index).name,
          value |-> static_get_entry(index).value, insert_c |-> 0]
    ELSE t.entries[index - first_unused_index + 1]

\* get_entry(index): a static entry (owned by no dynamic entry: insert_c 0)
\* or the dynamic entry at the offset from the newest end of `entries`
get_entry(t, index) ==
    IF index < first_unused_index
    THEN [name |-> static_get_entry(index).name,
          value |-> static_get_entry(index).value, insert_c |-> 0]
    ELSE t.entries[Len(t.entries) - (index - first_unused_index)]

\* reset(): every entry destroyed, the counters _max_size, _insert_count kept
resetKeepEntries(t) == [t EXCEPT !.current_size = 0]

reset(t) == [t EXCEPT !.entries = <<>>, !.set = <<>>, !.current_size = 0]

\* the sequence s without its elements that satisfy Drop
RECURSIVE SeqWithout(_, _)
SeqWithout(s, dropped) ==
    IF s = <<>> THEN <<>>
    ELSE IF Head(s) \in dropped THEN SeqWithout(Tail(s), dropped)
         ELSE <<Head(s)>> \o SeqWithout(Tail(s), dropped)

\* the number of leading entries the loop of evict_until_fits_into destroys
\* (_current_size is the sum of the live entries' sizes, so the loop stops at
\* the latest when `entries` is used up)
RECURSIVE EvictCount(_, _, _)
EvictCount(entries, current_size, bytes) ==
    IF current_size > bytes /\ entries # <<>>
    THEN 1 + EvictCount(Tail(entries), current_size - entry_size(Head(entries)), bytes)
    ELSE 0

RECURSIVE SizeOf(_)
SizeOf(entries) ==
    IF entries = <<>> THEN 0 ELSE entry_size(Head(entries)) + SizeOf(Tail(entries))

evict_none(t, bytes) == t

\* evict_until_fits_into: oldest entries first, each erased from `set` too
evict_until_fits_into(t, bytes) ==
    LET i == EvictCount(t.entries, t.current_size, bytes)
        gone == {t.entries[k].insert_c : k \in 1..i}
    IN [t EXCEPT !.entries = SubSeq(t.entries, i + 1, Len(t.entries)),
                 !.set = SeqWithout(t.set, gone),
                 !.current_size = t.current_size - SizeOf(SubSeq(t.entries, 1, i))]

\* the entry of t with the given _insert_c
EntryOf(t, c) == CHOOSE e \in {t.entries[k] : k \in 1..Len(t.entries)} : e.insert_c = c

IsLive(t, c) == \E k \in 1..Len(t.entries) : t.entries[k].insert_c = c

\* first position of `set` whose entry has the name, 0 when none
RECURSIVE FirstWithName(_, _, _)
FirstWithName(t, name, k) ==
    IF k > Len(t.set) THEN 0
    ELSE IF EntryOf(t, t.set[k]).name = name THEN k
         ELSE FirstWithName(t, name, k + 1)

set_insert_back(t, e) == Append(t.set, e.insert_c)

\* set.insert(*entries.back()) on the name-keyed unordered_multiset: the bucket
\* chain is a singly linked list; the new element is linked in front of the
\* first element with an equal key, or at the front of the chain when there is
\* none.  `set` is the chain in iteration order (one chain: a find only looks at
\* the elements of equal name, whose relative order rehashing keeps).
set_insert(t, e) ==
    LET k == FirstWithName(t, e.name, 1)
    IN IF k = 0 THEN <<e.insert_c>> \o t.set
       ELSE SubSeq(t.set, 1, k - 1) \o <<e.insert_c>> \o SubSeq(t.set, k, Len(t.set))

\* the end of add_entry with _insert_count left as it was
add_entry_insert_uncounted(t1, e, new_entry_size) ==
    [tab |-> [t1 EXCEPT !.entries = Append(t1.entries, e),
                        !.set = set_insert(t1, e),
                        !.current_size = t1.current_size + new_entry_size],
     ret |-> first_unused_index]

\* the end of add_entry: the new entry e is pushed to `entries`, inserted
\* into `set`, and counted
add_entry_insert(t1, e, new_entry_size) ==
    [tab |-> [t1 EXCEPT !.entries = Append(t1.entries, e),
                        !.insert_count = e.insert_c,
                        !.set = set_insert(t1, e),
                        !.current_size = t1.current_size + new_entry_size],
     ret |-> first_unused_index]

\* entry_t::create(name, value, ++_insert_count) on the table t1 the evictions
\* left: the name is copied out of the view, whose entry may be destroyed
add_entry_create(t1, name, value, g, new_entry_size, insert_c) ==
    add_entry_insert(t1,
                     [name |-> IF name.owner # 0 /\ ~IsLive(t1, name.owner)
                               THEN ReadFreed(g, name.str)
                               ELSE name.str,
                      value |-> value, insert_c |-> insert_c],
                     new_entry_size)

\* add_entry once new_entry_size is known
add_entry_sized(t, name, value, g, new_entry_size) ==
    IF t.max_size < new_entry_size
    THEN [tab |-> reset(t), ret |-> 0]
    ELSE add_entry_create(evict_until_fits_into(t, t.max_size - new_entry_size),
                          name, value, g, new_entry_size, t.insert_count + 1)

\* add_entry(name, value); name is a View, g the outcome of a read of freed
\* memory.  The evictions run before entry_t::create copies the name.  (The
\* uint32_t sums cannot wrap: a string_view of 2^32 octets is out of reach.)
add_entry(t, name, value, g) ==
    add_entry_sized(t, name, value, g, Len(name.str) + Len(value) + 32)

\* update_size: throws before it changes anything
update_size_unchecked(t, new_max_size) ==
    [tab |-> [evict_until_fits_into(t, new_max_size) EXCEPT !.max_size = new_max_size],
     err |-> "ok"]

update_size(t, new_max_size) ==
    IF new_max_size > t.user_protocol_max_size
    THEN [tab |-> t, err |-> "protocol_error"]
    ELSE [tab |-> [evict_until_fits_into(t, new_max_size) EXCEPT !.max_size = new_max_size],
          err |-> "ok"]

\* set_user_protocol_max_size that records the limit and nothing more
set_user_protocol_max_size_recorded(t, new_max_size) ==
    [t EXCEPT !.user_protocol_max_size = new_max_size]

\* set_user_protocol_max_size (noexcept: update_size cannot throw here)
set_user_protocol_max_size(t, new_max_size) ==
    LET t1 == [t EXCEPT !.user_protocol_max_size = new_max_size]
    IN IF t1.user_protocol_max_size < t1.max_size
       THEN update_size(t1, new_max_size).tab
       ELSE t1

\* the loop of find over the bucket chain from position k with result r
RECURSIVE FindLoop(_, _, _, _, _)
FindLoop(t, name, value, k, r) ==
    IF k > Len(t.set) THEN r
    ELSE LET b == EntryOf(t, t.set[k])
         IN IF b.name = name
            THEN IF b.value = value
                 THEN [header_name_index |-> indexof(t, b), value_indexed |-> TRUE]
                 ELSE FindLoop(t, name, value, k + 1,
                               [r EXCEPT !.header_name_index = indexof(t, b)])
            ELSE FindLoop(t, name, value, k + 1, r)

\* find(name, value): the dynamic entries only
find(t, name, value) == FindLoop(t, name, value, 1, NotFound)

\* move constructor: entries, set, _current_size, _max_size, _insert_count are
\* taken from the source; _user_protocol_max_size is not in the initialiser
\* list and keeps its default member initialiser 0
MoveConstruct(src) ==
    [dst |-> [src EXCEPT !.user_protocol_max_size = 0],
     src |-> [src EXCEPT !.entries = <<>>, !.set = <<>>, !.current_size = 0,
                         !.max_size = 0, !.insert_count = 0]]

\* move assignment: reset(), then the same five members; the destination
\* keeps its own _user_protocol_max_size
MoveAssign(dst, src) ==
    [dst |-> [src EXCEPT !.user_protocol_max_size = dst.user_protocol_max_size],
     src |-> [src EXCEPT !.entries = <<>>, !.set = <<>>, !.current_size = 0,
                         !.max_size = 0, !.insert_count = 0]]

-----------------------------------------------------------------------------
(* Octets and bits *)

RECURSIVE Pow2(_)
Pow2(n) == IF n = 0 THEN 1 ELSE 2 * Pow2(n - 1)

\* the low n bits of v, most significant first
BitsOf(v, n) == [i \in 1..n |-> (v \div Pow2(n - i)) % 2]

\* the eight bits of every octet
OctetBits == [b \in 0..255 |-> BitsOf(b, 8)]

\* the bits of a sequence of octets, most significant first
BitsOfBytes(bytes) ==
    [i \in 1..(8 * Len(bytes)) |-> OctetBits[bytes[((i - 1) \div 8) + 1]][((i - 1) % 8) + 1]]

\* the octets of a sequence of bits whose length is a multiple of 8
BytesOfBits(bits) ==
    [k \in 1..(Len(bits) \div 8) |->
        bits[8*k - 7] * 128 + bits[8*k - 6] * 64 + bits[8*k - 5] * 32 + bits[8*k - 4] * 16
        + bits[8*k - 3] * 8 + bits[8*k - 2] * 4 + bits[8*k - 1] * 2 + bits[8*k]]

\* a uint32_t as its two 16-bit halves (a number of 32 bits is beyond the
\* integers of the checker)
U32(n) == [hi |-> n \div 65536, lo |-> n % 65536]

U32Add(a, b) ==
    [hi |-> (a.hi + b.hi + ((a.lo + b.lo) \div 65536)) % 65536,
     lo |-> (a.lo + b.lo) % 65536]

U32Less(a, b) == a.hi < b.hi \/ (a.hi = b.hi /\ a.lo < b.lo)

\* UInt(x) << M for a 7-bit x and M < 32: the bits shifted beyond bit 31 are
\* lost
U32Shl(x, M) ==
    IF M < 16 THEN U32(x * Pow2(M))
    ELSE [hi |-> (x * Pow2(M - 16)) % 65536, lo |-> 0]

\* UInt(x) << M with M >= 32 is undefined: the outcomes are those of the shift
\* instructions, which take the count modulo 32 ("mask") or shift every bit
\* out ("zero")
ShiftOutcomes == {"mask", "zero"}

ShiftUndefined(u, x, M) == IF u = "mask" THEN U32Shl(x, M % 32) ELSE U32(0)

\* the largest integer of the checker: every uint32_t from 2^31 on reads as
\* this one (the model compares decoded integers with small numbers only)
MaxInt == 32767 * 65536 + 65535

U32Val(a) == IF a.hi >= 32768 THEN MaxInt ELSE a.hi * 65536 + a.lo

-----------------------------------------------------------------------------
(* Prefix integers (integers.hpp) *)

\* I - b for a uint32_t I >= b and b < 65536
U32Sub(I, b) ==
    IF I.lo >= b THEN [hi |-> I.hi, lo |-> I.lo - b]
    ELSE [hi |-> I.hi - 1, lo |-> I.lo + 65536 - b]

\* I / 128
U32Div128(I) == [hi |-> I.hi \div 128, lo |-> (I.hi % 128) * 512 + (I.lo \div 128)]

\* the loop of encode_integer going on while I > 128
RECURSIVE EncodeIntegerTailGt(_)
EncodeIntegerTailGt(I) ==
    IF I.hi > 0 \/ I.lo > 128
    THEN <<(I.lo % 128) + 128>> \o EncodeIntegerTailGt(U32Div128(I))
    ELSE <<I.lo>>

\* the while loop and the last push of encode_integer
RECURSIVE EncodeIntegerTail(_)
EncodeIntegerTail(I) ==
    IF I.hi > 0 \/ I.lo >= 128
    THEN <<(I.lo % 128) + 128>> \o EncodeIntegerTail(U32Div128(I))
    ELSE <<I.lo>>

\* encode_integer(I, N, out): I is a uint32_t, first is *out before the call,
\* its low N bits 0
encode_integer(I, N, first) ==
    LET prefix_max == Pow2(N) - 1
    IN IF I.hi = 0 /\ I.lo < prefix_max THEN <<first + I.lo>>
       ELSE <<first + prefix_max>> \o EncodeIntegerTail(U32Sub(I, prefix_max))

\* a decoding step's result: err is "ok", "incomplete" (incomplete_data_error,
\* with required_bytes) or "protocol_error"; pos is the cursor `in`
DecodeResult(err, val, pos, required) ==
    [err |-> err, val |-> val, pos |-> pos, required |-> required]

\* the do-while of decode_integer: continuation octets from pos on, I the
\* value so far, M the shift; DecodeIntegerAdd is one pass with the octet B
\* and the sum I2
RECURSIVE DecodeIntegerLoop(_, _, _, _, _)
DecodeIntegerAdd(bytes, pos, I, M, u, B, I2) ==
    IF U32Less(I2, I) THEN DecodeResult("protocol_error", U32(0), pos + 1, 0)
    ELSE IF B >= 128 THEN DecodeIntegerLoop(bytes, pos + 1, I2, (M + 7) % 256, u)
         ELSE DecodeResult("ok", I2, pos + 1, 0)

DecodeIntegerLoop(bytes, pos, I, M, u) ==
    IF pos > Len(bytes) THEN DecodeResult("incomplete", U32(0), pos, 2)
    ELSE DecodeIntegerAdd(bytes, pos, I, M, u, bytes[pos],
                          U32Add(I, IF M < 32 THEN U32Shl(bytes[pos] % 128, M)
                                    ELSE ShiftUndefined(u, bytes[pos] % 128, M)))

\* decode_integer(in, e, N): the input is bytes, `in` is pos, `e` its end, u
\* the outcome of a shift by 32 or more; val is the uint32_t returned
decode_integer(bytes, pos, N, u) ==
    IF pos > Len(bytes) THEN DecodeResult("incomplete", U32(0), pos, 2)
    ELSE LET prefix_mask == Pow2(N) - 1
             I == bytes[pos] % Pow2(N)
         IN IF I < prefix_mask THEN DecodeResult("ok", U32(I), pos + 1, 0)
            ELSE DecodeIntegerLoop(bytes, pos + 1, U32(I), 0, u)

\* a decoded uint32_t as the number its caller compares and counts with
Narrow(r) == [r EXCEPT !.val = U32Val(r.val)]

-----------------------------------------------------------------------------
(* Strings (strings.hpp, decoder.cpp) *)

HuffmanSymbols == DOMAIN HuffmanTable

\* the code of every symbol as the bits in the order they are sent
HuffmanCodes == [c \in HuffmanSymbols |-> BitsOf(HuffmanTable[c][1], HuffmanTable[c][2])]

\* huffman_table_get(c)
huffman_table_get(c) == HuffmanCodes[c]

\* the symbol of every code
HuffmanDecodeTable ==
    [bits \in {HuffmanCodes[c] : c \in HuffmanSymbols} |->
        CHOOSE c \in HuffmanSymbols : HuffmanCodes[c] = bits]

\* huffman_decode_table_find(info): the symbol whose code is the bits read so
\* far, -1 when there is none
huffman_decode_table_find(info) ==
    IF info \in DOMAIN HuffmanDecodeTable THEN HuffmanDecodeTable[info] ELSE -1

RECURSIVE HuffmanBits(_)
HuffmanBits(str) ==
    IF str = <<>> THEN <<>> ELSE huffman_table_get(Head(str)) \o HuffmanBits(Tail(str))

\* encode_string_huffman padding with 0-bits
encode_string_huffman_zero_pad(str) ==
    LET bits == HuffmanBits(str)
        len_after_encode == Len(bits)
        padlen == (8 - (len_after_encode % 8)) % 8
    IN encode_integer(U32((len_after_encode + padlen) \div 8), 7, 128)
       \o BytesOfBits(bits \o [i \in 1..padlen |-> 0])

\* encode_string_huffman: H bit, length in octets, the codes, 1-bits up to the
\* next octet boundary
encode_string_huffman(str) ==
    LET bits == HuffmanBits(str)
        len_after_encode == Len(bits)
        padlen == (8 - (len_after_encode % 8)) % 8
    IN encode_integer(U32((len_after_encode + padlen) \div 8), 7, 128)
       \o BytesOfBits(bits \o [i \in 1..padlen |-> 1])

\* encode_string<Huffman>
encode_string(Huffman, str) ==
    IF Huffman THEN encode_string_huffman(str)
    ELSE encode_integer(U32(Len(str)), 7, 0) \o str

\* the number of trailing 1-bits of the bits read (std::countr_one)
RECURSIVE CountrOne(_)
\* every bit read counted as a 1-bit
CountrOneAny(info) == Len(info)

CountrOne(info) ==
    IF info = <<>> \/ info[Len(info)] = 0 THEN 0
    ELSE 1 + CountrOne(SubSeq(info, 1, Len(info) - 1))

\* the second loop of decode_string_huffman: one bit at a time until the bits
\* read are a code or the input ends; the result is <<bits read, next bit>>
RECURSIVE HuffmanReadSymbol(_, _, _)
HuffmanReadSymbol(bits, p, info) ==
    IF huffman_decode_table_find(info) = -1 /\ p <= Len(bits)
    THEN HuffmanReadSymbol(bits, p + 1, Append(info, bits[p]))
    ELSE <<info, p>>

\* the first loop: up to five bits from bit p
HuffmanFirstEnd(bits, p) == IF p + 4 > Len(bits) THEN Len(bits) ELSE p + 4

\* the for (;;) of decode_string_huffman over the bits of the payload, from
\* bit p, with the octets decoded so far; HuffmanSymbol is one pass after
\* its two loops have read the bits info and found the symbol sym (or -1)
RECURSIVE HuffmanLoop(_, _, _)
\* one pass that takes EOS for a symbol like any other
HuffmanSymbolNoEOS(bits, out, info, q, sym) ==
    IF sym = -1 /\ Len(info) > 7 THEN [err |-> "protocol_error", str |-> <<>>]
    ELSE IF q > Len(bits)
         THEN IF sym # -1 THEN [err |-> "ok", str |-> Append(out, sym)]
              ELSE IF CountrOne(info) # Len(info)
                   THEN [err |-> "protocol_error", str |-> <<>>]
                   ELSE [err |-> "ok", str |-> out]
         ELSE HuffmanLoop(bits, q, IF sym # -1 THEN Append(out, sym) ELSE out)

HuffmanSymbol(bits, out, info, q, sym) ==
    IF sym = EOS THEN [err |-> "protocol_error", str |-> <<>>]
    ELSE IF sym = -1 /\ Len(info) > 7 THEN [err |-> "protocol_error", str |-> <<>>]
    ELSE IF q > Len(bits)
         THEN IF sym # -1 THEN [err |-> "ok", str |-> Append(out, sym)]
              ELSE IF CountrOne(info) # Len(info)
                   THEN [err |-> "protocol_error", str |-> <<>>]
                   ELSE [err |-> "ok", str |-> out]
         ELSE HuffmanLoop(bits, q, IF sym # -1 THEN Append(out, sym) ELSE out)

HuffmanRead(bits, out, rd) ==
    HuffmanSymbol(bits, out, rd[1], rd[2], huffman_decode_table_find(rd[1]))

HuffmanLoop(bits, p, out) ==
    HuffmanRead(bits, out,
                HuffmanReadSymbol(bits, HuffmanFirstEnd(bits, p) + 1,
                                  SubSeq(bits, p, HuffmanFirstEnd(bits, p))))

\* decode_string_huffman(in, len, out) on the len octets of the payload
decode_string_huffman(payload) == HuffmanLoop(BitsOfBytes(payload), 1, <<>>)

\* decoded_string::set_huffman: the string, or the error of the decoding
set_huffman(h, pos, e) ==
    IF h.err # "ok" THEN DecodeResult(h.err, <<>>, pos, 0)
    ELSE DecodeResult("ok", h.str, e, 0)

\* decode_string from the payload on: pos is its first octet, e its end
decode_string_payload(is_huffman, payload, pos, e) ==
    IF is_huffman THEN set_huffman(decode_string_huffman(payload), pos, e)
    ELSE DecodeResult("ok", payload, e, 0)

\* decode_string that asks for the whole length when octets are missing
decode_string_len_whole(bytes, is_huffman, n) ==
    IF n.err # "ok" THEN DecodeResult(n.err, <<>>, n.pos, n.required)
    ELSE IF n.val > Len(bytes) - n.pos + 1
         THEN DecodeResult("incomplete", <<>>, n.pos, n.val)
         ELSE decode_string_payload(is_huffman,
                                    SubSeq(bytes, n.pos, n.pos + n.val - 1),
                                    n.pos, n.pos + n.val)

\* decode_string once the length n is decoded
decode_string_len(bytes, is_huffman, n) ==
    IF n.err # "ok" THEN DecodeResult(n.err, <<>>, n.pos, n.required)
    ELSE IF n.val > Len(bytes) - n.pos + 1
         THEN DecodeResult("incomplete", <<>>, n.pos, n.val - (Len(bytes) - n.pos + 1))
         ELSE decode_string_payload(is_huffman,
                                    SubSeq(bytes, n.pos, n.pos + n.val - 1),
                                    n.pos, n.pos + n.val)

\* decode_string(in, e, out): val is the decoded string
decode_string(bytes, pos, u) ==
    IF pos > Len(bytes) THEN DecodeResult("incomplete", <<>>, pos, 1)
    ELSE decode_string_len(bytes, bytes[pos] >= 128, Narrow(decode_integer(bytes, pos, 7, u)))

\* the most octets a Huffman payload of huffman_str_len octets decodes to, as
\* if every octet of the payload gave one octet of the string
max_huffman_string_size_after_decode_octets(huffman_str_len) == huffman_str_len

\* max_huffman_string_size_after_decode: size_t(huffman_str_len) * 8 / 5
max_huffman_string_size_after_decode(huffman_str_len) == (huffman_str_len * 8) \div 5

\* decoded_string::bytes_allocated()
bytes_allocated(s) ==
    IF s.allocated_sz_log2 = -1 THEN 0 ELSE 2 ^ s.allocated_sz_log2

\* std::bit_ceil(n): the smallest power of two that is not below n
RECURSIVE bit_ceil_from(_, _)
bit_ceil_from(n, p) == IF p >= n THEN p ELSE bit_ceil_from(n, 2 * p)

bit_ceil(n) == bit_ceil_from(n, 1)

\* std::bit_width(n): the number of bits of n
RECURSIVE bit_width(_)
bit_width(n) == IF n = 0 THEN 0 ELSE 1 + bit_width(n \div 2)

\* decoded_string::reset(): the buffer is freed if the string owns one
reset_string(s) == NewString

\* decoded_string::set_not_huffman(ptr, len): a view of len octets of the input
set_not_huffman(s, len) == [reset_string(s) EXCEPT !.data = -1, !.sz = len]

\* decoded_string::set_huffman(ptr, len) on the string s: h is what
\* decode_string_huffman makes of the payload, id names the block malloc
\* gives when it is called. err is the exception that leaves the call, str
\* the string after it: a call that fails after it allocated frees the new
\* block and puts the old one back
RECURSIVE set_huffman_buffer(_, _, _, _)
set_huffman_allocated(s, r) == IF r.err # "ok" THEN [err |-> r.err, str |-> s] ELSE r

set_huffman_buffer(s, len, h, id) ==
    IF bytes_allocated(s) >= max_huffman_string_size_after_decode(len)
    THEN IF h.err # "ok" THEN [err |-> h.err, str |-> s]
         ELSE [err |-> "ok", str |-> [s EXCEPT !.sz = Len(h.str)]]
    ELSE set_huffman_allocated(s,
             set_huffman_buffer(
                 [s EXCEPT !.data = id,
                           !.allocated_sz_log2 =
                               bit_width(bit_ceil(max_huffman_string_size_after_decode(len))) - 1],
                 len, h, id))

\* decode_string(in, e, out) on an input that holds the whole string: what
\* it does to the decoded_string out
decode_string_out(s, is_huffman, payload, id) ==
    IF is_huffman
    THEN set_huffman_buffer(s, Len(payload), decode_string_huffman(payload), id)
    ELSE [err |-> "ok", str |-> set_not_huffman(s, Len(payload))]

-----------------------------------------------------------------------------
(* Decoder (decoder.cpp, decoder.hpp, hpack.hpp) *)

\* table_entry: the name and the value of an entry as views, into the static
\* table or into the dynamic entry that owns them
EntryViews(e) ==
    [err |-> "ok", name |-> View(e.name, e.insert_c), value |-> View(e.value, e.insert_c)]

\* get_by_index(header_index, dyntab)
get_by_index(header_index, t) ==
    IF header_index = 0 \/ header_index > current_max_index(t)
    THEN [err |-> "protocol_error", name |-> View(<<>>, 0), value |-> View(<<>>, 0)]
    ELSE EntryViews(get_entry(t, header_index))

\* header_view::operator bool: a header with an empty name is no header
header_present(name) == Len(name) # 0

\* the result of decode_header: the cursor, the table, the header as the
\* caller reads it after the call, and whether header_view is true
HeaderResult(err, pos, t, name, value, required) ==
    [err |-> err, pos |-> pos, tab |-> t, name |-> name, value |-> value,
     present |-> err = "ok" /\ header_present(name), required |-> required]

HeaderError(r, t) == HeaderResult(r.err, r.pos, t, <<>>, <<>>, r.required)

\* decode_header_impl threw: r is the step that failed
ImplError(r) ==
    [err |-> r.err, pos |-> r.pos, required |-> r.required,
     name |-> View(<<>>, 0), value |-> <<>>]

\* decode_header_impl: the value, after the name (a view)
decode_header_impl_value(name, value) ==
    [err |-> value.err, pos |-> value.pos, required |-> value.required,
     name |-> name, value |-> value.val]

\* decode_header_impl: index == 0, the name is the literal lit
decode_header_impl_literal(bytes, lit, u) ==
    IF lit.err # "ok" THEN ImplError(lit)
    ELSE decode_header_impl_value(View(lit.val, 0), decode_string(bytes, lit.pos, u))

\* decode_header_impl: index # 0, the name is that of the entry ent
decode_header_impl_indexed(bytes, pos, ent, u) ==
    IF ent.err # "ok"
    THEN [err |-> ent.err, pos |-> pos, required |-> 0,
          name |-> View(<<>>, 0), value |-> <<>>]
    ELSE decode_header_impl_value(ent.name, decode_string(bytes, pos, u))

\* decode_header_impl once the index is decoded
decode_header_impl_name(bytes, t, index, u) ==
    IF index.err # "ok" THEN ImplError(index)
    ELSE IF index.val = 0
         THEN decode_header_impl_literal(bytes, decode_string(bytes, index.pos, u), u)
         ELSE decode_header_impl_indexed(bytes, index.pos, get_by_index(index.val, t), u)

\* decode_header_impl(in, e, N, dyntab, out): a name by index or as a literal,
\* then a literal value
decode_header_impl(bytes, pos, N, t, u) ==
    decode_header_impl_name(bytes, t, Narrow(decode_integer(bytes, pos, N, u)), u)

\* decode_header_fully_indexed: out = entry
fully_indexed_out(t, pos, entry) ==
    IF entry.err # "ok" THEN HeaderResult(entry.err, pos, t, <<>>, <<>>, 0)
    ELSE HeaderResult("ok", pos, t, entry.name.str, entry.value.str, 0)

fully_indexed_entry(t, index) ==
    IF index.err # "ok" THEN HeaderError(index, t)
    ELSE fully_indexed_out(t, index.pos, get_by_index(index.val, t))

decode_header_fully_indexed(bytes, pos, t, u) ==
    fully_indexed_entry(t, Narrow(decode_integer(bytes, pos, 7, u)))

\* decode_header_incremental_indexing: the entry is added with the name the
\* view shows; the caller reads the view again after the insertion a, when
\* the entry it points into may be destroyed (g: that storage reads as junk)
incremental_indexing_out(h, g, a) ==
    HeaderResult("ok", h.pos, a.tab,
                 IF h.name.owner # 0 /\ ~IsLive(a.tab, h.name.owner)
                 THEN ReadFreed(g, h.name.str)
                 ELSE h.name.str,
                 h.value, 0)

\* the entry is added as soon as the name is known, before the value is read
incremental_indexing_add_early(t, g, h) ==
    IF h.err # "ok" THEN HeaderError(h, add_entry(t, h.name, <<>>, g).tab)
    ELSE incremental_indexing_out(h, g, add_entry(t, h.name, h.value, g))

incremental_indexing_add(t, g, h) ==
    IF h.err # "ok" THEN HeaderError(h, t)
    ELSE incremental_indexing_out(h, g, add_entry(t, h.name, h.value, g))

decode_header_incremental_indexing(bytes, pos, t, g, u) ==
    incremental_indexing_add(t, g, decode_header_impl(bytes, pos, 6, t, u))

\* a literal without indexing that is added to the table all the same
without_indexing_out_added(t, h) ==
    IF h.err # "ok" THEN HeaderError(h, t)
    ELSE HeaderResult("ok", h.pos, add_entry(t, h.name, h.value, FALSE).tab,
                      h.name.str, h.value, 0)

\* decode_header_without_indexing and decode_header_never_indexing
without_indexing_out(t, h) ==
    IF h.err # "ok" THEN HeaderError(h, t)
    ELSE HeaderResult("ok", h.pos, t, h.name.str, h.value, 0)

decode_header_without_indexing(bytes, pos, t, u) ==
    without_indexing_out(t, decode_header_impl(bytes, pos, 4, t, u))

decode_header_never_indexing(bytes, pos, t, u) ==
    without_indexing_out(t, decode_header_impl(bytes, pos, 4, t, u))

\* *in & (1 << k): bit k of the octet b is set
BitSet(b, k) == (b \div Pow2(k)) % 2 = 1

\* decode_dynamic_table_size_update: *in & 0b1100'0000, the marker is wrong
\* (invalid dynamic table size update)
size_update_marker_wrong(b) == BitSet(b, 7) \/ BitSet(b, 6)

\* decode_dynamic_table_size_update: the requested size
decode_dynamic_table_size_update(bytes, pos, u) ==
    IF size_update_marker_wrong(bytes[pos]) THEN DecodeResult("protocol_error", 0, pos, 0)
    ELSE Narrow(decode_integer(bytes, pos, 5, u))

\* decode_header on a size update: dyntab.update_size(n), then out is reset
size_update_out(pos, u) == HeaderResult(u.err, pos, u.tab, <<>>, <<>>, 0)

size_update_apply(t, n) ==
    IF n.err # "ok" THEN HeaderError(n, t)
    ELSE size_update_out(n.pos, update_size(t, n.val))

\* the tests of decode_header with the one for a size update before the one
\* for incremental indexing
representation_update_first(b) ==
    IF BitSet(b, 7) THEN "indexed"
    ELSE IF BitSet(b, 5) THEN "update"
    ELSE IF BitSet(b, 6) THEN "incremental"
    ELSE IF BitSet(b, 4) THEN "never"
    ELSE IF (b \div 16) % 16 = 0 THEN "without"
    ELSE "invalid field representation"

\* the branch decoder::decode_header takes on the first octet b: the tests
\* *in & 0b1000'0000, 0b0100'0000, 0b0010'0000, 0b0001'0000 in this order,
\* then (*in & 0b1111'0000) == 0, and the throw when none holds
representation(b) ==
    IF BitSet(b, 7) THEN "indexed"
    ELSE IF BitSet(b, 6) THEN "incremental"
    ELSE IF BitSet(b, 5) THEN "update"
    ELSE IF BitSet(b, 4) THEN "never"
    ELSE IF (b \div 16) % 16 = 0 THEN "without"
    ELSE "invalid field representation"

\* the body of the branch `kind` of decode_header
decode_header_as(kind, t, bytes, pos, g, u) ==
    IF kind = "indexed" THEN decode_header_fully_indexed(bytes, pos, t, u)
    ELSE IF kind = "incremental"
         THEN decode_header_incremental_indexing(bytes, pos, t, g, u)
    ELSE IF kind = "update"
         THEN size_update_apply(t, decode_dynamic_table_size_update(bytes, pos, u))
    ELSE IF kind = "never" THEN decode_header_never_indexing(bytes, pos, t, u)
    ELSE IF kind = "without" THEN decode_header_without_indexing(bytes, pos, t, u)
    ELSE HeaderResult("protocol_error", pos, t, <<>>, <<>>, 0)

\* decoder::decode_header(in, e, out), precondition in != e
decode_header(t, bytes, pos, g, u) ==
    decode_header_as(representation(bytes[pos]), t, bytes, pos, g, u)

\* the loop `while (in != e)` of decode_headers_block and of do_feed: out is
\* what the visitor has received; on an error pos is the first octet of the
\* representation that failed.  DecodeLoopVisit is one pass after
\* decode_header gave h.
RECURSIVE DecodeLoop(_, _, _, _, _, _)
DecodeLoopVisit(bytes, pos, g, u, out, h) ==
    IF h.err # "ok"
    THEN [err |-> h.err, tab |-> h.tab, out |-> out, pos |-> pos,
          required |-> h.required]
    ELSE DecodeLoop(h.tab, bytes, h.pos, g, u,
                    IF h.present
                    THEN Append(out, [name |-> h.name, value |-> h.value])
                    ELSE out)

DecodeLoop(t, bytes, pos, g, u, out) ==
    IF pos > Len(bytes)
    THEN [err |-> "ok", tab |-> t, out |-> out, pos |-> pos, required |-> 0]
    ELSE DecodeLoopVisit(bytes, pos, g, u, out, decode_header(t, bytes, pos, g, u))

\* decode_headers_block(dec, bytes, visitor)
decode_headers_block(t, bytes, g, u) == DecodeLoop(t, bytes, 1, g, u, <<>>)

\* the name ":status"
StatusName == <<58, 115, 116, 97, 116, 117, 115>>

\* std::from_chars(first, last, int): the digits read from position i on,
\* acc the number so far, n the digits read
RECURSIVE FromCharsDigits(_, _, _, _)
FromCharsDigits(s, i, acc, n) ==
    IF i <= Len(s) /\ s[i] \in 48..57
    THEN FromCharsDigits(s, i + 1, acc * 10 + (s[i] - 48), n + 1)
    ELSE [val |-> acc, n |-> n]

\* the digits after the optional minus sign: no digit is
\* std::errc::invalid_argument; what follows the digits is not read
from_chars_signed(neg, d) ==
    IF d.n = 0 THEN [err |-> "invalid_argument", val |-> 0]
    ELSE [err |-> "ok", val |-> IF neg THEN 0 - d.val ELSE d.val]

\* std::from_chars(s.data(), s.data() + Len(s), int&): base 10, a leading '-'
\* is accepted, a '+' or a space is not
from_chars(s) ==
    IF s # <<>> /\ s[1] = 45
    THEN from_chars_signed(TRUE, FromCharsDigits(s, 2, 0, 0))
    ELSE from_chars_signed(FALSE, FromCharsDigits(s, 1, 0, 0))

\* the result of decode_response_status: the status returned, the cursor
\* and the table
StatusResult(err, status, pos, t) ==
    [err |-> err, status |-> status, pos |-> pos, tab |-> t]

\* the cases of the switch of decode_response_status: the indexes
\* status_200 .. status_500 of the static table and what each returns
StatusCases ==
    [i \in {k \in 1..(first_unused_index - 1) : StaticTable[k].name = StatusName}
        |-> from_chars(StaticTable[i].value).val]

\* decode_response_status once the first header h is there: name and size
\* of the value are checked, then from_chars reads the first three octets
status_of_code(h, c) ==
    IF c.err # "ok" THEN StatusResult("protocol_error", 0, h.pos, h.tab)
    ELSE StatusResult("ok", c.val, h.pos, h.tab)

status_of_header(h) ==
    IF h.name # StatusName \/ Len(h.value) # 3
    THEN StatusResult("protocol_error", 0, h.pos, h.tab)
    ELSE status_of_code(h, from_chars(SubSeq(h.value, 1, 3)))

\* the loop `do decode_header while (!header && in != e)` and what follows
\* it; StatusLoopNext is one pass after decode_header gave h
RECURSIVE StatusLoop(_, _, _, _, _)
StatusLoopNext(bytes, g, u, h) ==
    IF h.err # "ok" THEN StatusResult(h.err, 0, h.pos, h.tab)
    ELSE IF ~h.present /\ h.pos <= Len(bytes)
         THEN StatusLoop(h.tab, bytes, h.pos, g, u)
    ELSE IF ~h.present THEN StatusResult("protocol_error", 0, h.pos, h.tab)
    ELSE status_of_header(h)

StatusLoop(t, bytes, pos, g, u) ==
    StatusLoopNext(bytes, g, u, decode_header(t, bytes, pos, g, u))

\* the fast path that returns with the cursor where it was
status_fast_path_rewound(t, bytes, pos, g, u, index) ==
    IF index.err # "ok" THEN StatusResult(index.err, 0, index.pos, t)
    ELSE IF index.val \in DOMAIN StatusCases
         THEN StatusResult("ok", StatusCases[index.val], pos, t)
         ELSE StatusLoop(t, bytes, pos, g, u)

\* the fast path: the index of a fully indexed first header
status_fast_path(t, bytes, pos, g, u, index) ==
    IF index.err # "ok" THEN StatusResult(index.err, 0, index.pos, t)
    ELSE IF index.val \in DOMAIN StatusCases
         THEN StatusResult("ok", StatusCases[index.val], index.pos, t)
         ELSE StatusLoop(t, bytes, pos, g, u)

\* decoder::decode_response_status(in, e)
decode_response_status(t, bytes, pos, g, u) ==
    IF pos > Len(bytes) THEN StatusResult("protocol_error", 0, pos, t)
    ELSE IF bytes[pos] >= 128
         THEN status_fast_path(t, bytes, pos, g, u,
                               Narrow(decode_integer(bytes, pos, 7, u)))
         ELSE StatusLoop(t, bytes, pos, g, u)

\* ignore_headers_block(dec, bytes): nothing is decoded when no entry fits
\* the table; else decode_headers_block with a visitor that does nothing
ignore_headers_block(t, bytes, g, u) ==
    IF t.max_size < 32
    THEN [err |-> "ok", tab |-> t, out |-> <<>>, pos |-> 1, required |-> 0]
    ELSE [decode_headers_block(t, bytes, g, u) EXCEPT !.out = <<>>]

\* feed that returns 0 whatever do_feed found
feed_out_no_hint(sd, data, thrown, r) ==
    [sd |-> [tab |-> r.tab,
             incomplete |-> IF thrown
                            THEN IF sd.incomplete # <<>> THEN data ELSE <<>>
                            ELSE SubSeq(data, r.pos, Len(data))],
     err |-> IF thrown THEN r.err ELSE "ok",
     out |-> r.out,
     ret |-> 0]

\* stream_decoder::feed after do_feed gave r for the octets data: an
\* incomplete_data_error is caught unless the chunk is the last; on a throw
\* `incomplete` keeps what feed had appended to it
feed_out(sd, data, thrown, r) ==
    [sd |-> [tab |-> r.tab,
             incomplete |-> IF thrown
                            THEN IF sd.incomplete # <<>> THEN data ELSE <<>>
                            ELSE SubSeq(data, r.pos, Len(data))],
     err |-> IF thrown THEN r.err ELSE "ok",
     out |-> r.out,
     ret |-> IF r.err = "incomplete" THEN r.required ELSE 0]

do_feed(sd, data, last_chunk, r) ==
    feed_out(sd, data, r.err # "ok" /\ (r.err # "incomplete" \/ last_chunk), r)

\* stream_decoder::feed(chunk, last_chunk, visitor): sd is the stream
\* decoder, [tab, incomplete]; ret is the returned hint
feed(sd, chunk, last_chunk, g, u) ==
    IF chunk = <<>> THEN [sd |-> sd, err |-> "ok", out |-> <<>>, ret |-> 0]
    ELSE do_feed(sd, sd.incomplete \o chunk, last_chunk,
                 DecodeLoop(sd.tab, sd.incomplete \o chunk, 1, g, u, <<>>))

-----------------------------------------------------------------------------
(* Encoder (encoder.hpp, hpack.hpp): every function maps the encoder's     *)
(* table to [tab, out], the table after the call and the octets written    *)

\* encode_header_fully_indexed(header_index, out)
encode_header_fully_indexed(t, header_index) ==
    [tab |-> t, out |-> encode_integer(U32(header_index), 7, 128)]

\* encode_header_and_cache<Huffman>(index_type header_index, value, out): the
\* name given to add_entry is a view into the entry the index names
encode_header_and_cache_by_index(t, Huffman, header_index, value, g) ==
    LET str == get_by_index(header_index, t).name
    IN [tab |-> add_entry(t, str, value, g).tab,
        out |-> encode_integer(U32(header_index), 6, 64) \o encode_string(Huffman, value)]

\* encode_header_and_cache<Huffman>(string_view name, value, out)
encode_header_and_cache(t, Huffman, name, value) ==
    [tab |-> add_entry(t, View(name, 0), value, FALSE).tab,
     out |-> <<64>> \o encode_string(Huffman, name) \o encode_string(Huffman, value)]

\* encode_with_cache<Huffman>(string_view name, value, out)
encode_with_cache(t, Huffman, name, value) ==
    LET r == find(t, name, value)
    IN IF r.value_indexed
       THEN encode_header_fully_indexed(t, r.header_name_index)
       ELSE encode_header_and_cache(t, Huffman, name, value)

\* dynamic_table_t::find(index_type name, value)
find_by_index(t, name, value) ==
    IF name = 0 THEN NotFound ELSE find(t, get_entry(t, name).name, value)

\* encode_with_cache<Huffman>(index_type name, value, out)
encode_with_cache_by_index(t, Huffman, name, value, g) ==
    LET r == find_by_index(t, name, value)
    IN IF r.value_indexed
       THEN encode_header_fully_indexed(t, r.header_name_index)
       ELSE encode_header_and_cache_by_index(t, Huffman, name, value, g)

\* encode_header_without_indexing<Huffman>(index_type name, value, out)
encode_header_without_indexing_by_index(t, Huffman, name, value) ==
    [tab |-> t, out |-> encode_integer(U32(name), 4, 0) \o encode_string(Huffman, value)]

\* a literal without indexing that inserts the header all the same
encode_header_without_indexing_inserting(t, Huffman, name, value) ==
    [tab |-> add_entry(t, View(name, 0), value, FALSE).tab,
     out |-> <<0>> \o encode_string(Huffman, name) \o encode_string(Huffman, value)]

\* encode_header_without_indexing<Huffman>(string_view name, value, out)
encode_header_without_indexing(t, Huffman, name, value) ==
    [tab |-> t,
     out |-> <<0>> \o encode_string(Huffman, name) \o encode_string(Huffman, value)]

\* encode_header_never_indexing<Huffman>(index_type name, value, out)
encode_header_never_indexing_by_index(t, Huffman, name, value) ==
    [tab |-> t, out |-> encode_integer(U32(name), 4, 16) \o encode_string(Huffman, value)]

\* encode_header_never_indexing<Huffman>(string_view name, value, out)
encode_header_never_indexing(t, Huffman, name, value) ==
    [tab |-> t,
     out |-> <<16>> \o encode_string(Huffman, name) \o encode_string(Huffman, value)]

\* encode<Cache, Huffman>(string_view name, value, out)
encode(t, Cache, Huffman, name, value, g) ==
    LET r2 == static_find(name, value)
        r1 == find(t, name, value)
    IN IF r2.value_indexed
       THEN encode_header_fully_indexed(t, r2.header_name_index)
       ELSE IF r1.value_indexed
       THEN encode_header_fully_indexed(t, r1.header_name_index)
       ELSE IF r2.header_name_index # 0
       THEN IF Cache
            THEN encode_header_and_cache_by_index(t, Huffman, r2.header_name_index, value, g)
            ELSE encode_header_without_indexing_by_index(t, Huffman, r2.header_name_index, value)
       ELSE IF r1.header_name_index # 0
       THEN IF Cache
            THEN encode_header_and_cache_by_index(t, Huffman, r1.header_name_index, value, g)
            ELSE encode_header_without_indexing_by_index(t, Huffman, r1.header_name_index, value)
       ELSE IF Cache
            THEN encode_header_and_cache(t, Huffman, name, value)
            ELSE encode_header_without_indexing(t, Huffman, name, value)

\* a size update that is written and not applied to the encoder's own table
encode_dynamic_table_size_update_remote(t, new_size) ==
    [tab |-> t, out |-> encode_integer(U32(new_size), 5, 32)]

\* encode_dynamic_table_size_update(new_size, out); noexcept: a new_size above
\* the protocol maximum ends the process, the callers keep to the precondition
encode_dynamic_table_size_update(t, new_size) ==
    [tab |-> update_size(t, new_size).tab, out |-> encode_integer(U32(new_size), 5, 32)]

\* std::to_chars(data, data + 32, status) for a status >= 0
RECURSIVE to_chars(_)
to_chars(status) ==
    IF status < 10 THEN <<48 + status>>
    ELSE Append(to_chars(status \div 10), 48 + (status % 10))

\* static_table_t::values::status_200, the first entry of the name ":status"
status_200 == static_find_name(StatusName)

\* encode_status(status, out)
encode_status(t, status, g) ==
    LET r == static_find(StatusName, to_chars(status))
    IN IF r.value_indexed
       THEN encode_header_fully_indexed(t, r.header_name_index)
       ELSE encode_with_cache_by_index(t, FALSE, status_200, to_chars(status), g)

-----------------------------------------------------------------------------
(* The reference of the test dynamic_table_indexes: test_dyntab_t *)

NewRef(max_sz) == [d |-> <<>>, cur_size |-> 0, max_size |-> max_sz]

NoRef == NewRef(0)

RECURSIVE RefEvict(_, _)
RefEvict(r, entry_sz) ==
    IF r.d # <<>> /\ entry_sz > r.max_size - r.cur_size
    THEN RefEvict([r EXCEPT !.d = SubSeq(r.d, 1, Len(r.d) - 1),
                            !.cur_size = r.cur_size - (Len(r.d[Len(r.d)].name)
                                                       + Len(r.d[Len(r.d)].value) + 32)],
                  entry_sz)
    ELSE r

\* test_dyntab_t::add_entry: pop_back while it does not fit, then push_front
RefAdd(r, name, value) ==
    LET entry_sz == Len(name) + Len(value) + 32
        r1 == RefEvict(r, entry_sz)
    IN IF entry_sz > r.max_size THEN r1
       ELSE [r1 EXCEPT !.d = <<[name |-> name, value |-> value]>> \o r1.d,
                       !.cur_size = r1.cur_size + entry_sz]

-----------------------------------------------------------------------------
(* Direct use of one dynamic table *)

\* names, values and table sizes the table is driven with: entries of 33 and
\* 34 octets, tables that hold none, one, two or three of them
TNames == {<<120>>, <<121>>}
TValues == {<<>>, <<49>>}
TSizes == {0, 33, 70, 110}

\* sizes a decoded size update asks for: TSizes and one beyond every limit
\* that takes two continuation octets
TUpdates == TSizes \cup {300}

NoOp == [name |-> "init", arg_name |-> <<>>, arg_value |-> <<>>, arg_n |-> 0,
         ret |-> 0, err |-> "ok", pre |-> NewTable(0)]

\* no encoder and no decoder in use
NoWire ==
    /\ cfg = [Cache |-> FALSE, Huffman |-> FALSE]
    /\ dstr = NewString
    /\ enc = NewTable(0)
    /\ dec = NewTable(0)
    /\ sdec = [tab |-> NewTable(0), incomplete |-> <<>>]
    /\ wire = <<>>
    /\ stream = <<>>
    /\ sent = <<>>
    /\ recv = <<>>
    /\ srecv = <<>>
    /\ derr = "ok"
    /\ serr = "ok"

InitTable ==
    /\ \E m \in TSizes : \E p \in TSizes :
          /\ p >= m
          /\ tab = NewTable2(m, p)
          /\ ref = NewRef(m)
    /\ other = NewTable(0)
    /\ onlyAdds = TRUE
    /\ op = NoOp
    /\ steps = 0
    /\ NoWire

AddEntryOp ==
    /\ tab.insert_count < MaxInserts
    /\ \E name \in TNames : \E value \in TValues :
         LET r == add_entry(tab, View(name, 0), value, FALSE)
         IN /\ tab' = r.tab
            /\ ref' = IF onlyAdds THEN RefAdd(ref, name, value) ELSE ref
            /\ op' = [NoOp EXCEPT !.name = "add_entry", !.arg_name = name,
                                  !.arg_value = value, !.ret = r.ret, !.pre = tab]
    /\ UNCHANGED <<other, onlyAdds>>

UpdateSizeOp ==
    \E n \in TSizes :
        LET r == update_size(tab, n)
        IN /\ tab' = r.tab
           /\ op' = [NoOp EXCEPT !.name = "update_size", !.arg_n = n,
                                 !.err = r.err, !.pre = tab]
           /\ onlyAdds' = FALSE
           /\ ref' = NoRef
           /\ UNCHANGED other

SetUserProtocolMaxSizeOp ==
    \E n \in TSizes :
        /\ tab' = set_user_protocol_max_size(tab, n)
        /\ op' = [NoOp EXCEPT !.name = "set_user_protocol_max_size", !.arg_n = n,
                              !.pre = tab]
        /\ onlyAdds' = FALSE
        /\ ref' = NoRef
        /\ UNCHANGED other

ResetOp ==
    /\ tab' = reset(tab)
    /\ op' = [NoOp EXCEPT !.name = "reset", !.pre = tab]
    /\ onlyAdds' = FALSE
    /\ ref' = NoRef
    /\ UNCHANGED other

\* decoder::decode_header on a dynamic table size update (001 and the size
\* as a 5-bit prefix integer) for the table
Decoded(n, r) ==
    /\ tab' = r.tab
    /\ op' = [NoOp EXCEPT !.name = "decode_size_update", !.arg_n = n,
                          !.err = r.err, !.pre = tab]
    /\ onlyAdds' = FALSE
    /\ ref' = NoRef
    /\ UNCHANGED other

DecodeSizeUpdateOp ==
    \E n \in TUpdates : \E u \in ShiftOutcomes :
        Decoded(n, decode_header(tab, encode_integer(U32(n), 5, 32), 1, FALSE, u))

NextTable ==
    \/ AddEntryOp /\ UNCHANGED <<steps, wireVars>>
    \/ UpdateSizeOp /\ UNCHANGED <<steps, wireVars>>
    \/ SetUserProtocolMaxSizeOp /\ UNCHANGED <<steps, wireVars>>
    \/ ResetOp /\ UNCHANGED <<steps, wireVars>>
    \/ DecodeSizeUpdateOp /\ UNCHANGED <<steps, wireVars>>

SpecTable == InitTable /\ [][NextTable]_vars

-----------------------------------------------------------------------------
(* Moves between two tables *)

InitMove ==
    /\ \E m \in TSizes : tab = NewTable(m)
    /\ \E m \in TSizes : other = NewTable(m)
    /\ ref = NoRef
    /\ onlyAdds = FALSE
    /\ op = NoOp
    /\ steps = 0
    /\ NoWire

\* dynamic_table_t moved(std::move(tab)): the operations that follow address
\* the new object, the moved-from one is kept in `other`
MoveConstructOp ==
    LET r == MoveConstruct(tab)
    IN /\ tab' = r.dst
       /\ other' = r.src
       /\ op' = [NoOp EXCEPT !.name = "move_construct", !.pre = tab]
       /\ UNCHANGED <<ref, onlyAdds>>

\* tab = std::move(other)
MoveAssignOp ==
    LET r == MoveAssign(tab, other)
    IN /\ tab' = r.dst
       /\ other' = r.src
       /\ op' = [NoOp EXCEPT !.name = "move_assign", !.pre = tab]
       /\ UNCHANGED <<ref, onlyAdds>>

MoveStep(A) ==
    steps < MaxMoveSteps /\ steps' = steps + 1 /\ A /\ UNCHANGED wireVars

NextMove ==
    \/ MoveStep(AddEntryOp)
    \/ MoveStep(UpdateSizeOp)
    \/ MoveStep(SetUserProtocolMaxSizeOp)
    \/ MoveStep(ResetOp)
    \/ MoveStep(MoveConstructOp)
    \/ MoveStep(MoveAssignOp)

SpecMove == InitMove /\ [][NextMove]_vars

-----------------------------------------------------------------------------
(* An encoder, its octets, and two receivers: one decodes whole blocks     *)
(* (decode_headers_block), one is fed chunks (stream_decoder::feed)        *)

\* ":method" "GET" (static entry 2), ":path" "/a" (static name 4), "x" "1",
\* "x" "2" (new names) and a header with an empty name
HMethodGet == [name |-> <<58, 109, 101, 116, 104, 111, 100>>, value |-> <<71, 69, 84>>]
HPathA == [name |-> <<58, 112, 97, 116, 104>>, value |-> <<47, 97>>]
HX1 == [name |-> <<120>>, value |-> <<49>>]
HX2 == [name |-> <<120>>, value |-> <<50>>]
HEmptyName == [name |-> <<>>, value |-> <<118>>]

WHeaders == {HMethodGet, HPathA, HX1, HX2, HEmptyName}

\* the headers of the specifications with more operations than encode
OHeaders == {HPathA, HX1, HX2}

\* table sizes: no entry fits, one entry of the headers fits, two fit
WSizes == {0, 40, 100}
OSizes == {40, 100}
SSizes == {40}

\* indexes and values given to the functions that take a name by index
OIndexes == {4, 62}
OValues == {<<49>>, <<50>>}

\* status codes: one of the static table, one that is not
OStatus == {200, 201}

NoTable ==
    /\ tab = NewTable(0)
    /\ other = NewTable(0)
    /\ ref = NoRef
    /\ onlyAdds = FALSE
    /\ op = NoOp

\* encoder enc(m); decoder dec(m); decoder d2(m); stream_decoder sdec(d2)
InitWire(sizes) ==
    /\ cfg \in [Cache : BOOLEAN, Huffman : BOOLEAN]
    /\ dstr = NewString
    /\ \E m \in sizes :
          /\ enc = NewTable(m)
          /\ dec = NewTable(m)
          /\ sdec = [tab |-> NewTable(m), incomplete |-> <<>>]
    /\ wire = <<>>
    /\ stream = <<>>
    /\ sent = <<>>
    /\ recv = <<>>
    /\ srecv = <<>>
    /\ derr = "ok"
    /\ serr = "ok"
    /\ steps = 0
    /\ NoTable

\* the encoder has written r.out for the headers hdrs
Emit(r, hdrs) ==
    /\ enc' = r.tab
    /\ wire' = wire \o r.out
    /\ stream' = stream \o r.out
    /\ sent' = sent \o hdrs
    /\ steps' = steps + 1
    /\ UNCHANGED <<dstr, cfg, dec, sdec, recv, srecv, derr, serr, tableVars>>

\* enc.encode<Cache, Huffman>(name, value, out): the body of the loop of
\* encode_headers_block
EncodeOp(headers, max) ==
    /\ steps < max
    /\ \E h \in headers : \E g \in BOOLEAN :
          Emit(encode(enc, cfg.Cache, cfg.Huffman, h.name, h.value, g), <<h>>)

\* enc.encode_header_and_cache<Huffman>(name, value, out)
EncodeHeaderAndCacheOp ==
    /\ steps < MaxOps
    /\ \E h \in OHeaders :
          Emit(encode_header_and_cache(enc, cfg.Huffman, h.name, h.value), <<h>>)

\* enc.encode_header_and_cache<Huffman>(header_index, value, out)
EncodeHeaderAndCacheByIndexOp ==
    /\ steps < MaxOps
    /\ \E i \in OIndexes : \E v \in OValues : \E g \in BOOLEAN :
          /\ i <= current_max_index(enc)
          /\ Emit(encode_header_and_cache_by_index(enc, cfg.Huffman, i, v, g),
                  <<[name |-> get_entry(enc, i).name, value |-> v]>>)

\* enc.encode_with_cache<Huffman>(name, value, out)
EncodeWithCacheOp ==
    /\ steps < MaxOps
    /\ \E h \in OHeaders :
          Emit(encode_with_cache(enc, cfg.Huffman, h.name, h.value), <<h>>)

\* enc.encode_with_cache<Huffman>(index_type name, value, out)
EncodeWithCacheByIndexOp ==
    /\ steps < MaxOps
    /\ \E i \in OIndexes : \E v \in OValues : \E g \in BOOLEAN :
          /\ i <= current_max_index(enc)
          /\ Emit(encode_with_cache_by_index(enc, cfg.Huffman, i, v, g),
                  <<[name |-> get_entry(enc, i).name, value |-> v]>>)

\* enc.encode_status(status, out)
EncodeStatusOp ==
    /\ steps < MaxOps
    /\ \E status \in OStatus : \E g \in BOOLEAN :
          Emit(encode_status(enc, status, g),
               <<[name |-> StatusName, value |-> to_chars(status)]>>)

\* enc.encode_dynamic_table_size_update(new_size, out)
EncodeDynamicTableSizeUpdateOp(max) ==
    /\ steps < max
    /\ \E n \in WSizes :
          /\ n <= enc.user_protocol_max_size
          /\ Emit(encode_dynamic_table_size_update(enc, n), <<>>)

\* decode_headers_block(dec, bytes, visitor) on all the octets written since
\* the last call
Visited(r) ==
    /\ dec' = r.tab
    /\ recv' = recv \o r.out
    /\ derr' = r.err

DecodeHeadersBlockOp ==
    /\ wire # <<>>
    /\ derr = "ok"
    /\ \E g \in BOOLEAN : \E u \in ShiftOutcomes :
          Visited(decode_headers_block(dec, wire, g, u))
    /\ wire' = <<>>
    /\ UNCHANGED <<dstr, cfg, enc, sdec, stream, sent, srecv, serr, steps, tableVars>>

Fed(r) ==
    /\ sdec' = r.sd
    /\ srecv' = srecv \o r.out
    /\ serr' = r.err

\* sdec.feed(chunk, last_chunk, visitor): the chunk is the next n octets the
\* encoder wrote; a last chunk is all of them
FeedOp ==
    /\ stream # <<>>
    /\ serr = "ok"
    /\ \E n \in 1..Len(stream) : \E last_chunk \in BOOLEAN : \E g \in BOOLEAN :
       \E u \in ShiftOutcomes :
          /\ last_chunk => n = Len(stream)
          /\ Fed(feed(sdec, SubSeq(stream, 1, n), last_chunk, g, u))
          /\ stream' = SubSeq(stream, n + 1, Len(stream))
    /\ UNCHANGED <<dstr, cfg, enc, dec, wire, sent, recv, derr, steps, tableVars>>

\* encode_headers_block and decode_headers_block
InitBlock == InitWire(WSizes)

NextBlock ==
    \/ EncodeOp(WHeaders, MaxHeaders)
    \/ DecodeHeadersBlockOp

SpecBlock == InitBlock /\ [][NextBlock]_vars

\* every function of the encoder that writes a header or a size update
InitOps == InitWire(OSizes)

NextOps ==
    \/ EncodeOp(OHeaders, MaxOps)
    \/ EncodeHeaderAndCacheOp
    \/ EncodeHeaderAndCacheByIndexOp
    \/ EncodeWithCacheOp
    \/ EncodeWithCacheByIndexOp
    \/ EncodeStatusOp
    \/ EncodeDynamicTableSizeUpdateOp(MaxOps)
    \/ DecodeHeadersBlockOp

SpecOps == InitOps /\ [][NextOps]_vars

\* the same octets decoded as a block and fed in chunks
InitStream == InitWire(SSizes)

NextStream ==
    \/ EncodeOp(OHeaders, MaxStreamOps)
    \/ EncodeDynamicTableSizeUpdateOp(MaxStreamOps)
    \/ DecodeHeadersBlockOp
    \/ FeedOp

SpecStream == InitStream /\ [][NextStream]_vars

-----------------------------------------------------------------------------
(* decoder::decode_header on representations a peer may send *)

\* the four representations that carry an index: the pattern of the first
\* octet and the prefix length N of the index
RawKinds ==
    {[kind |-> "indexed", first |-> 128, N |-> 7],
     [kind |-> "incremental", first |-> 64, N |-> 6],
     [kind |-> "never", first |-> 16, N |-> 4],
     [kind |-> "without", first |-> 0, N |-> 4]}

\* indexes sent: 0, static, around the end of a table of up to two entries
RIndexes == {0, 1, 61, 62, 63, 64}

\* continuation octets that add 2^32 to the prefix
WideTail == <<128, 128, 128, 128, 16>>

\* the index as octets: an index of RIndexes, or the full prefix plus 2^32
RawIndexes(k) ==
    {encode_integer(U32(i), k.N, k.first) : i \in RIndexes}
        \cup {<<k.first + Pow2(k.N) - 1>> \o WideTail}

RNames == {<<120>>, <<121>>}
RValue == <<49>>

\* what follows the index: nothing, or the name as a literal when the index
\* is 0, and the value as a literal
RawLiterals(k, ix) ==
    IF k.kind = "indexed" THEN {<<>>}
    ELSE IF ix = <<k.first>>
         THEN {encode_string(FALSE, n) \o encode_string(FALSE, RValue) : n \in RNames}
         ELSE {encode_string(FALSE, RValue)}

RawInputs ==
    UNION {UNION {{[kind |-> k.kind, N |-> k.N, octets |-> ix \o lit] :
                      lit \in RawLiterals(k, ix)} : ix \in RawIndexes(k)} :
           k \in RawKinds}

RSizes == {70}

InitRaw == InitWire(RSizes) /\ cfg = [Cache |-> FALSE, Huffman |-> FALSE]

\* decode_header gave h for the input in
RawDecoded(in, h) ==
    /\ dec' = h.tab
    /\ derr' = h.err
    /\ recv' = IF h.present THEN <<[name |-> h.name, value |-> h.value]>> ELSE <<>>
    /\ op' = [NoOp EXCEPT !.name = in.kind, !.arg_value = in.octets, !.arg_n = in.N,
                          !.err = h.err, !.ret = h.pos, !.pre = dec]

\* header_view out; dec.decode_header(in, e, out);
DecodeHeaderOp ==
    /\ steps < MaxRawOps
    /\ steps' = steps + 1
    /\ \E in \in RawInputs : \E g \in BOOLEAN : \E u \in ShiftOutcomes :
          RawDecoded(in, decode_header(dec, in.octets, 1, g, u))
    /\ UNCHANGED <<dstr, cfg, enc, sdec, wire, stream, sent, srecv, serr,
                   tab, other, ref, onlyAdds>>

NextRaw == DecodeHeaderOp

SpecRaw == InitRaw /\ [][NextRaw]_vars

\* size updates a peer may send: to 0, below and at the limit of RSizes,
\* and above it
RawUpdates ==
    {[kind |-> "update", N |-> 5, octets |-> encode_integer(U32(n), 5, 32)] :
        n \in {0, 40, 70, 100}}

\* dec.decode_header(in, e, out) on a dynamic table size update
DecodeHeaderUpdateOp ==
    /\ steps < MaxRawOps
    /\ steps' = steps + 1
    /\ \E in \in RawUpdates : \E g \in BOOLEAN : \E u \in ShiftOutcomes :
          RawDecoded(in, decode_header(dec, in.octets, 1, g, u))
    /\ UNCHANGED <<dstr, cfg, enc, sdec, wire, stream, sent, srecv, serr,
                   tab, other, ref, onlyAdds>>

\* every representation decode_header tells apart
NextKinds == DecodeHeaderOp \/ DecodeHeaderUpdateOp

SpecKinds == InitRaw /\ [][NextKinds]_vars

-----------------------------------------------------------------------------
(* decode_header on every first octet                                      *)

\* what follows the first octet: nothing, a value, a name and a value, one
\* octet that ends an integer
LeadTails == {<<>>, <<0>>, <<1, 49>>, <<1, 120, 1, 49>>}

\* decode_header gave h for the input octets: name is the branch taken
LeadDecoded(octets, h) ==
    /\ dec' = h.tab
    /\ derr' = h.err
    /\ recv' = IF h.present THEN <<[name |-> h.name, value |-> h.value]>> ELSE <<>>
    /\ op' = [NoOp EXCEPT !.name = representation(octets[1]), !.arg_value = octets,
                          !.arg_n = octets[1], !.err = h.err, !.ret = h.pos, !.pre = dec]

\* header_view out; dec.decode_header(in, e, out) for any first octet
DecodeLeadOp ==
    /\ steps = 0
    /\ steps' = 1
    /\ \E b \in 0..255 : \E tail \in LeadTails :
       \E g \in BOOLEAN : \E u \in ShiftOutcomes :
          LeadDecoded(<<b>> \o tail, decode_header(dec, <<b>> \o tail, 1, g, u))
    /\ UNCHANGED <<dstr, cfg, enc, sdec, wire, stream, sent, srecv, serr,
                   tab, other, ref, onlyAdds>>

NextLead == DecodeLeadOp

SpecLead == InitRaw /\ [][NextLead]_vars

-----------------------------------------------------------------------------
(* decode_header on a representation whose last octets are not there yet,  *)
(* and again on the whole of it                                            *)

\* the representations of RawInputs and RawUpdates that are cut
PartialInputs == RawInputs \cup RawUpdates

\* decode_header gave h for the first octets `given` of the representation in
PrefixDecoded(in, given, h) ==
    /\ dec' = h.tab
    /\ derr' = h.err
    /\ recv' = IF h.present THEN <<[name |-> h.name, value |-> h.value]>> ELSE <<>>
    /\ op' = [NoOp EXCEPT !.name = "prefix", !.arg_name = in.octets, !.arg_value = given,
                          !.arg_n = in.N, !.err = h.err, !.ret = h.pos, !.pre = dec]

\* dec.decode_header(in, e, out) when e is before the end of the representation
DecodePrefixOp ==
    /\ steps < MaxRawOps
    /\ steps' = steps + 1
    /\ \E in \in PartialInputs : \E k \in 1..(Len(in.octets) - 1) :
       \E g \in BOOLEAN : \E u \in ShiftOutcomes :
          PrefixDecoded(in, SubSeq(in.octets, 1, k),
                        decode_header(dec, SubSeq(in.octets, 1, k), 1, g, u))
    /\ UNCHANGED <<dstr, cfg, enc, sdec, wire, stream, sent, srecv, serr,
                   tab, other, ref, onlyAdds>>

\* decode_header gave h for the whole of the representation that was cut:
\* pre stays the table before the call that threw incomplete_data
AgainDecoded(h) ==
    /\ dec' = h.tab
    /\ derr' = h.err
    /\ recv' = IF h.present THEN <<[name |-> h.name, value |-> h.value]>> ELSE <<>>
    /\ op' = [op EXCEPT !.name = "again", !.arg_value = op.arg_name,
                        !.err = h.err, !.ret = h.pos]

\* after incomplete_data: dec.decode_header(in, e, out) from the first octet
\* of the same representation, now that all of it is there
DecodeAgainOp ==
    /\ op.name = "prefix"
    /\ derr = "incomplete"
    /\ \E g \in BOOLEAN : \E u \in ShiftOutcomes :
          AgainDecoded(decode_header(dec, op.arg_name, 1, g, u))
    /\ UNCHANGED <<dstr, cfg, enc, sdec, wire, stream, sent, srecv, serr,
                   tab, other, ref, onlyAdds, steps>>

NextPartial == DecodeHeaderOp \/ DecodePrefixOp \/ DecodeAgainOp

SpecPartial == InitRaw /\ [][NextPartial]_vars

-----------------------------------------------------------------------------
(* The lookups of the static table on their own *)

\* names looked up: every name of the static table, the empty name and two
\* names the table has not ("x", ":statu")
FindNames ==
    {StaticTable[i].name : i \in 1..(first_unused_index - 1)}
        \cup {<<>>, <<120>>, <<58, 115, 116, 97, 116, 117>>}

\* values looked up: every value of the static table, the empty value and
\* values the table has not ("abc", "20", "get")
FindValues ==
    {StaticTable[i].value : i \in 1..(first_unused_index - 1)}
        \cup {<<>>, <<97, 98, 99>>, <<50, 48>>, <<103, 101, 116>>}

\* indexes looked up: 0, the static table, and beyond it
FindIndexes == 0..(first_unused_index + 2)

InitStatic == NoWire /\ NoTable /\ steps = 0

\* the call last made in SpecStatic: by is the name's index given or found,
\* res the find_result_t returned
FindCall(name, hname, value, by, res) ==
    [name |-> name, arg_name |-> hname, arg_value |-> value, arg_n |-> by,
     ret |-> res.header_name_index, value_indexed |-> res.value_indexed]

\* static_table_t::find(name)
StaticFindNameOp ==
    /\ steps = 0
    /\ steps' = 1
    /\ \E n \in FindNames :
          op' = FindCall("find(name)", n, <<>>, 0,
                         [header_name_index |-> static_find_name(n), value_indexed |-> FALSE])
    /\ UNCHANGED <<tab, other, ref, onlyAdds, wireVars>>

\* static_table_t::find(name, value)
StaticFindOp ==
    /\ steps = 0
    /\ steps' = 1
    /\ \E n \in FindNames : \E v \in FindValues :
          op' = FindCall("find(name, value)", n, v, static_find_name(n), static_find(n, v))
    /\ UNCHANGED <<tab, other, ref, onlyAdds, wireVars>>

\* static_table_t::find(index, value)
StaticFindByIndexOp ==
    /\ steps = 0
    /\ steps' = 1
    /\ \E i \in FindIndexes : \E v \in FindValues :
          op' = FindCall("find(index, value)", <<>>, v, i, static_find_by_index(i, v))
    /\ UNCHANGED <<tab, other, ref, onlyAdds, wireVars>>

NextStatic == StaticFindNameOp \/ StaticFindOp \/ StaticFindByIndexOp

SpecStatic == InitStatic /\ [][NextStatic]_vars

-----------------------------------------------------------------------------
(* decode_string again and again into one decoded_string                   *)

\* the strings a peer sends: over an octet with a code of 5 bits and one with
\* a code of 30 bits, up to MaxBufLen octets
BufStrings == UNION {[1..n -> {48, 10}] : n \in 0..MaxBufLen}

\* the payloads: the strings with Huffman coding, some of them without, and
\* payloads that are no Huffman coding of a string
BufInputs ==
    {[H |-> TRUE, payload |-> Tail(encode_string_huffman(s))] : s \in BufStrings}
        \cup {[H |-> FALSE, payload |-> s] : s \in {<<>>, <<48>>, <<48, 10, 48>>}}
        \cup {[H |-> TRUE, payload |-> p] : p \in {<<0>>, <<255, 255, 255, 255>>}}

InitBuffer == NoWire /\ NoTable /\ steps = 0

\* the call last made: pre is the decoded_string before it, val the string
\* decode_string is to give, err the exception that left the call
BufCall(name, in, r, val) ==
    [name |-> name, H |-> in.H, payload |-> in.payload, pre |-> dstr,
     val |-> val, err |-> r.err]

BufDecoded(in, r, val) ==
    /\ dstr' = r.str
    /\ op' = BufCall("decode_string", in, r, val)

\* decode_string(in, e, out) with the same decoded_string out
DecodeStringIntoOp ==
    /\ steps < MaxStringCalls
    /\ steps' = steps + 1
    /\ \E in \in BufInputs :
          BufDecoded(in, decode_string_out(dstr, in.H, in.payload, steps + 1),
                     decode_string_payload(in.H, in.payload, 1, Len(in.payload) + 1).val)
    /\ UNCHANGED <<tab, other, ref, onlyAdds, cfg, enc, dec, sdec, wire, stream, sent,
                   recv, srecv, derr, serr>>

\* out.reset()
ResetStringOp ==
    /\ steps < MaxStringCalls
    /\ dstr # NewString
    /\ steps' = steps + 1
    /\ dstr' = reset_string(dstr)
    /\ op' = BufCall("reset", [H |-> FALSE, payload |-> <<>>], [err |-> "ok"], <<>>)
    /\ UNCHANGED <<tab, other, ref, onlyAdds, cfg, enc, dec, sdec, wire, stream, sent,
                   recv, srecv, derr, serr>>

NextBuffer == DecodeStringIntoOp \/ ResetStringOp

SpecBuffer == InitBuffer /\ [][NextBuffer]_vars

-----------------------------------------------------------------------------
(* encode_integer and decode_integer on their own *)

\* the values encoded: the small ones, those of the test encode_decode_integers
\* and the ends of the range of uint32_t
IntValues ==
    {U32(n) : n \in 0..MaxSmall}
        \cup {U32(1337), U32(16383), U32(16384), U32(100000), U32(1048576)}
        \cup {[hi |-> 32767, lo |-> 65535], [hi |-> 32768, lo |-> 0],
              [hi |-> 65535, lo |-> 65534], [hi |-> 65535, lo |-> 65535]}

\* *out before encode_integer: its low N bits 0, every other bit clear or set
IntFirsts(N) == {0, 256 - Pow2(N)}

\* what follows the integer in the input
IntRest == {<<>>, <<255>>}

\* continuation octets a peer sends: k octets with the top bit and one
\* without, or the input ends after octets with the top bit
IntHigh == {128, 129, 255}
IntLow == {0, 1, 15, 16, 127}

RawTails ==
    UNION {{h \o <<l>> : h \in [1..k -> IntHigh], l \in IntLow}
              \cup [1..(k + 1) -> IntHigh] : k \in 0..(MaxCont - 1)}

\* the call last made in SpecInt: `from` is how the input was made, v the
\* value encoded, len the number of octets encode_integer wrote, val, pos and
\* err the result of decode_integer
IntOp(name, from, N, v, len, val, pos, err) ==
    [name |-> name, from |-> from, N |-> N, v |-> v, len |-> len,
     val |-> val, pos |-> pos, err |-> err]

InitInt == NoWire /\ NoTable /\ steps = 0

IntEncoded(N, v, out, rest) ==
    /\ wire' = out \o rest
    /\ op' = IntOp("encode_integer", "encode_integer", N, v, Len(out), U32(0), 0, "ok")

\* uint8_t chars[10] = {first}; encode_integer(v, N, chars);
EncodeIntegerOp ==
    /\ steps = 0
    /\ steps' = 1
    /\ \E v \in IntValues : \E N \in 1..8 : \E first \in IntFirsts(N) :
       \E rest \in IntRest :
          IntEncoded(N, v, encode_integer(v, N, first), rest)
    /\ UNCHANGED <<dstr, cfg, enc, dec, sdec, stream, sent, recv, srecv, derr, serr,
                   tab, other, ref, onlyAdds>>

\* octets of a peer: a full N-bit prefix and continuation octets
RawIntegerOp ==
    /\ steps = 0
    /\ steps' = 1
    /\ \E N \in 1..8 : \E tail \in RawTails :
          /\ wire' = <<Pow2(N) - 1>> \o tail
          /\ op' = IntOp("raw", "raw", N, U32(0), 0, U32(0), 0, "ok")
    /\ UNCHANGED <<dstr, cfg, enc, dec, sdec, stream, sent, recv, srecv, derr, serr,
                   tab, other, ref, onlyAdds>>

IntDecoded(r) ==
    op' = IntOp("decode_integer", op.from, op.N, op.v, op.len, r.val, r.pos, r.err)

\* const uint8_t* in = chars; decode_integer(in, e, N);
DecodeIntegerOp ==
    /\ steps = 1
    /\ op.name \in {"encode_integer", "raw"}
    /\ steps' = 2
    /\ \E u \in ShiftOutcomes : IntDecoded(decode_integer(wire, 1, op.N, u))
    /\ UNCHANGED <<dstr, cfg, enc, dec, sdec, wire, stream, sent, recv, srecv, derr, serr,
                   tab, other, ref, onlyAdds>>

NextInt == EncodeIntegerOp \/ RawIntegerOp \/ DecodeIntegerOp

SpecInt == InitInt /\ [][NextInt]_vars

-----------------------------------------------------------------------------
(* encode_string and decode_string on their own *)

\* octets whose codes have 5, 7, 8, 10, 23 and 30 bits
StrAlphabet == {48, 120, 38, 63, 1, 10}

\* a string of n octets c
LongStr(c, n) == [i \in 1..n |-> c]

\* the strings encoded: every string over StrAlphabet up to MaxStrLen octets
\* and every octet that has a code in HuffmanTable
StrValues ==
    UNION {[1..n -> StrAlphabet] : n \in 0..MaxStrLen}
        \cup {<<c>> : c \in HuffmanSymbols \ {EOS}}

\* the calls of encode_string: every string in both modes, and strings whose
\* length takes a second octet of the length prefix: 127 and 150 octets
\* plain, 34 and 40 octets of 30-bit codes (128 and 150 octets) coded
StrInputs ==
    {[H |-> H, s |-> s] : H \in BOOLEAN, s \in StrValues}
        \cup {[H |-> FALSE, s |-> LongStr(120, 127)], [H |-> FALSE, s |-> LongStr(120, 150)],
              [H |-> TRUE, s |-> LongStr(10, 34)], [H |-> TRUE, s |-> LongStr(10, 40)]}

\* the bits of a payload of whole octets that holds the code of EOS between
\* the codes of the strings a and b, padded with 1-bits
EOSBits(a, b) == HuffmanBits(a) \o HuffmanCodes[EOS] \o HuffmanBits(b)

EOSPayload(a, b) ==
    BytesOfBits(EOSBits(a, b) \o [i \in 1..((8 - (Len(EOSBits(a, b)) % 8)) % 8) |-> 1])

StrAround == {<<>>, <<48>>, <<120>>, <<97, 63>>, <<1>>, <<33>>}

\* the call last made in SpecStr: `from` is how the input was made, H the
\* Huffman flag, s the string encoded, len the number of octets written,
\* val, pos and err the result of decode_string
StrOp(name, from, H, s, len, val, pos, err) ==
    [name |-> name, from |-> from, H |-> H, s |-> s, len |-> len,
     val |-> val, pos |-> pos, err |-> err]

InitStr == NoWire /\ NoTable /\ steps = 0

StrEncoded(H, s, out, rest) ==
    /\ wire' = out \o rest
    /\ op' = StrOp("encode_string", "encode_string", H, s, Len(out), <<>>, 0, "ok")

\* encode_string<Huffman>(s, out)
EncodeStringOp ==
    /\ steps = 0
    /\ steps' = 1
    /\ \E in \in StrInputs : \E rest \in IntRest :
          StrEncoded(in.H, in.s, encode_string(in.H, in.s), rest)
    /\ UNCHANGED <<dstr, cfg, enc, dec, sdec, stream, sent, recv, srecv, derr, serr,
                   tab, other, ref, onlyAdds>>

StrSent(payload, rest) ==
    /\ wire' = encode_integer(U32(Len(payload)), 7, 128) \o payload \o rest
    /\ op' = StrOp("raw_eos", "raw_eos", TRUE, <<>>, 0, <<>>, 0, "ok")

\* a Huffman-coded string of a peer with EOS among its symbols
RawStringOp ==
    /\ steps = 0
    /\ steps' = 1
    /\ \E a \in StrAround : \E b \in StrAround : \E rest \in IntRest :
          StrSent(EOSPayload(a, b), rest)
    /\ UNCHANGED <<dstr, cfg, enc, dec, sdec, stream, sent, recv, srecv, derr, serr,
                   tab, other, ref, onlyAdds>>

\* the strings whose codes come before the bits left over: their codes take
\* 0, 5, 7, 10, 12, 14, 15, 17, 19 and 23 bits
PadAround == StrAround \cup {<<63>>, <<48, 120>>, <<120, 120>>, <<48, 48, 120>>, <<48, 120, 120>>}

\* the symbols whose codes the bits left over begin: codes of 5, 6, 7, 8, 10,
\* 23 and 30 bits
PadSymbols == {48, 97, 65, 120, 38, 63, 1, EOS}

\* the bits left over after the last code of a payload: the first k bits of
\* a code, fewer than the code, so that no code is complete in them
PadLeft ==
    UNION {{SubSeq(HuffmanCodes[c], 1, k) : k \in 0..(Len(HuffmanCodes[c]) - 1)} : c \in PadSymbols}

PadFits(a, left) ==
    /\ (Len(HuffmanBits(a)) + Len(left)) % 8 = 0
    /\ \A c \in HuffmanSymbols : \A k \in 1..Len(left) : SubSeq(left, 1, k) # HuffmanCodes[c]

PadSent(a, left, payload, rest) ==
    /\ wire' = encode_integer(U32(Len(payload)), 7, 128) \o payload \o rest
    /\ op' = [name |-> "raw_pad", from |-> "raw_pad", H |-> TRUE, s |-> a,
              len |-> Len(payload) + 1, val |-> <<>>, pos |-> 0, err |-> "ok",
              left |-> left]

\* a Huffman-coded string of a peer: the codes of a, then bits in which no
\* code is complete, up to the end of the last octet
RawPaddingOp ==
    /\ steps = 0
    /\ steps' = 1
    /\ \E a \in PadAround : \E left \in {l \in PadLeft : PadFits(a, l)} : \E rest \in IntRest :
          PadSent(a, left, BytesOfBits(HuffmanBits(a) \o left), rest)
    /\ UNCHANGED <<dstr, cfg, enc, dec, sdec, stream, sent, recv, srecv, derr, serr,
                   tab, other, ref, onlyAdds>>

StrDecoded(r) ==
    op' = [op EXCEPT !.name = "decode_string", !.val = r.val, !.pos = r.pos, !.err = r.err]

\* decoded_string out; decode_string(in, e, out);
DecodeStringOp ==
    /\ steps = 1
    /\ op.name \in {"encode_string", "raw_eos", "raw_pad"}
    /\ steps' = 2
    /\ \E u \in ShiftOutcomes : StrDecoded(decode_string(wire, 1, u))
    /\ UNCHANGED <<dstr, cfg, enc, dec, sdec, wire, stream, sent, recv, srecv, derr, serr,
                   tab, other, ref, onlyAdds>>

NextStr == EncodeStringOp \/ RawStringOp \/ RawPaddingOp \/ DecodeStringOp

SpecStr == InitStr /\ [][NextStr]_vars

-----------------------------------------------------------------------------
(* stream_decoder::feed on a block a peer wrote, cut into chunks at any    *)
(* octet, and decode_headers_block on the same block                       *)

\* the representations of the blocks: the octets; the header (name, value)
\* a representation carries, or update = TRUE for a dynamic table size
\* update; needs = 1 when it names entry 62 of the dynamic table, adds = 1
\* when it inserts an entry
FRep(octets, name, value, update, needs, adds) ==
    [octets |-> octets, name |-> name, value |-> value, update |-> update,
     needs |-> needs, adds |-> adds]

FeedReps ==
    {FRep(<<130>>, HMethodGet.name, HMethodGet.value, FALSE, 0, 0),
     FRep(<<0>> \o encode_string(FALSE, HX1.name) \o encode_string(FALSE, HX1.value),
          HX1.name, HX1.value, FALSE, 0, 0),
     FRep(<<64>> \o encode_string(FALSE, HX1.name) \o encode_string(FALSE, HX1.value),
          HX1.name, HX1.value, FALSE, 0, 1),
     FRep(<<190>>, HX1.name, HX1.value, FALSE, 1, 0),
     FRep(<<20>> \o encode_string(FALSE, HPathA.value),
          HPathA.name, HPathA.value, FALSE, 0, 0),
     FRep(<<0>> \o encode_string(FALSE, HEmptyName.name)
               \o encode_string(FALSE, HEmptyName.value),
          HEmptyName.name, HEmptyName.value, FALSE, 0, 0),
     FRep(encode_integer(U32(40), 5, 32), <<>>, <<>>, TRUE, 0, 0)}

\* entries the representations before the i-th have inserted
RECURSIVE FAdded(_, _)
FAdded(b, i) == IF i <= 1 THEN 0 ELSE FAdded(b, i - 1) + b[i - 1].adds

\* blocks the decoder accepts: an index of the dynamic table names an entry
\* that an earlier representation inserted
FeedBlocks ==
    {b \in UNION {[1..n -> FeedReps] : n \in 1..MaxReps} :
        \A i \in 1..Len(b) : b[i].needs <= FAdded(b, i)}

\* the octets of the representations i.. of a block
RECURSIVE FOctets(_, _)
FOctets(b, i) == IF i > Len(b) THEN <<>> ELSE b[i].octets \o FOctets(b, i + 1)

FSizes == {100}

\* the last call of feed: the octets given to feed before it, the decoder
\* before it, the chunk, and what the call returned, gave the visitor and
\* threw
FeedCall(given, pre, chunk, last_chunk, r) ==
    [name |-> "feed", given |-> given, pre |-> pre, chunk |-> chunk,
     last_chunk |-> last_chunk, ret |-> r.ret, out |-> r.out, err |-> r.err]

\* decoder dec(m), d2(m); stream_decoder sdec(d2); sent is the block, each
\* representation with its octets; both receivers are to get its octets
InitFeed ==
    /\ cfg = [Cache |-> FALSE, Huffman |-> FALSE]
    /\ dstr = NewString
    /\ \E m \in FSizes :
          /\ enc = NewTable(m)
          /\ dec = NewTable(m)
          /\ sdec = [tab |-> NewTable(m), incomplete |-> <<>>]
    /\ \E b \in FeedBlocks :
          /\ sent = b
          /\ wire = FOctets(b, 1)
          /\ stream = FOctets(b, 1)
    /\ recv = <<>>
    /\ srecv = <<>>
    /\ derr = "ok"
    /\ serr = "ok"
    /\ steps = 0
    /\ NoTable

\* sdec.feed(chunk, last_chunk, visitor): the chunk is the next n octets of
\* the block, n = 0 included; the chunk the framer calls the last can end
\* before the block does (a truncated block), and no call follows it
FeedChunkOp ==
    /\ steps < MaxFeeds
    /\ serr = "ok"
    /\ op.name = "feed" => ~op.last_chunk
    /\ \E n \in 0..Len(stream) : \E last_chunk \in BOOLEAN : \E g \in BOOLEAN :
       \E u \in ShiftOutcomes :
          /\ Fed(feed(sdec, SubSeq(stream, 1, n), last_chunk, g, u))
          /\ op' = FeedCall(Len(FOctets(sent, 1)) - Len(stream), sdec,
                            SubSeq(stream, 1, n), last_chunk,
                            feed(sdec, SubSeq(stream, 1, n), last_chunk, g, u))
          /\ stream' = SubSeq(stream, n + 1, Len(stream))
    /\ steps' = steps + 1
    /\ UNCHANGED <<dstr, cfg, enc, dec, wire, sent, recv, derr, tab, other, ref, onlyAdds>>

NextFeed ==
    \/ FeedChunkOp
    \/ DecodeHeadersBlockOp

SpecFeed == InitFeed /\ [][NextFeed]_vars

-----------------------------------------------------------------------------
(* stream_decoder::feed on blocks whose strings the chunks cut *)

\* a representation with the places of its string literals: strs holds, for
\* each, the positions in octets of the first and the last octet of its
\* payload
HRep(r, strs) ==
    [octets |-> r.octets, name |-> r.name, value |-> r.value, update |-> r.update,
     needs |-> r.needs, adds |-> r.adds, strs |-> strs]

\* a literal without indexing ":method" "GET" (name by index), a literal
\* with incremental indexing "x" "1" (name as a string), an index, and a
\* size update in two octets
HintReps ==
    {HRep(FRep(<<2>> \o encode_string(FALSE, HMethodGet.value),
               HMethodGet.name, HMethodGet.value, FALSE, 0, 0),
          {[from |-> 3, to |-> 5]}),
     HRep(FRep(<<64>> \o encode_string(FALSE, HX1.name) \o encode_string(FALSE, HX1.value),
               HX1.name, HX1.value, FALSE, 0, 1),
          {[from |-> 3, to |-> 3], [from |-> 5, to |-> 5]}),
     HRep(FRep(<<130>>, HMethodGet.name, HMethodGet.value, FALSE, 0, 0), {}),
     HRep(FRep(encode_integer(U32(40), 5, 32), <<>>, <<>>, TRUE, 0, 0), {})}

HintBlocks == UNION {[1..n -> HintReps] : n \in 1..MaxHintReps}

\* as InitFeed, for the blocks of HintBlocks
InitHint ==
    /\ cfg = [Cache |-> FALSE, Huffman |-> FALSE]
    /\ dstr = NewString
    /\ \E m \in FSizes :
          /\ enc = NewTable(m)
          /\ dec = NewTable(m)
          /\ sdec = [tab |-> NewTable(m), incomplete |-> <<>>]
    /\ \E b \in HintBlocks :
          /\ sent = b
          /\ wire = FOctets(b, 1)
          /\ stream = FOctets(b, 1)
    /\ recv = <<>>
    /\ srecv = <<>>
    /\ derr = "ok"
    /\ serr = "ok"
    /\ steps = 0
    /\ NoTable

NextHint == FeedChunkOp

SpecHint == InitHint /\ [][NextHint]_vars

-----------------------------------------------------------------------------
(* The functions of the encoder that write one header, called on their own *)

\* ":authority" with the empty value: the static table has it as entry 1
HAuthority == [name |-> StaticTable[1].name, value |-> <<>>]

\* ":path" "/b": the name is in the static table, the pair is not
HPathB == [name |-> HPathA.name, value |-> <<47, 98>>]

EHeaders == {HMethodGet, HPathA, HPathB, HX1, HX2, HAuthority}

\* indexes given to the functions that take one: static, dynamic
EIndexes == {2, 4, 62, 63}

ESizes == {100}

\* the last call on the encoder: the function, its template arguments, its
\* arguments, dyntab before it and the octets it wrote
EncCall(name, Cache, Huffman, hname, value, index, r) ==
    [name |-> name, Cache |-> Cache, Huffman |-> Huffman, arg_name |-> hname,
     arg_value |-> value, arg_n |-> index, pre |-> enc, out |-> r.out]

\* the call returned r
Encoded(call, r) ==
    /\ steps' = steps + 1
    /\ enc' = r.tab
    /\ op' = call
    /\ UNCHANGED <<dstr, cfg, dec, sdec, wire, stream, sent, recv, srecv, derr, serr,
                   tab, other, ref, onlyAdds>>

InitEnc == InitWire(ESizes) /\ cfg.Cache = FALSE

\* enc.encode<Cache, Huffman>(name, value, out)
EncodeCallOp ==
    /\ steps < MaxEncCalls
    /\ \E h \in EHeaders : \E Cache \in BOOLEAN : \E g \in BOOLEAN :
          Encoded(EncCall("encode", Cache, cfg.Huffman, h.name, h.value, 0,
                          encode(enc, Cache, cfg.Huffman, h.name, h.value, g)),
                  encode(enc, Cache, cfg.Huffman, h.name, h.value, g))

\* enc.encode_header_fully_indexed(header_index, out)
EncodeHeaderFullyIndexedOp ==
    /\ steps < MaxEncCalls
    /\ \E i \in EIndexes :
          /\ i <= current_max_index(enc)
          /\ Encoded(EncCall("encode_header_fully_indexed", FALSE, FALSE, <<>>, <<>>, i,
                             encode_header_fully_indexed(enc, i)),
                     encode_header_fully_indexed(enc, i))

\* enc.encode_header_without_indexing<Huffman>(name, value, out), the name a
\* string or an index
EncodeHeaderWithoutIndexingOp ==
    /\ steps < MaxEncCalls
    /\ \/ \E h \in EHeaders :
             Encoded(EncCall("encode_header_without_indexing", FALSE, cfg.Huffman,
                             h.name, h.value, 0,
                             encode_header_without_indexing(enc, cfg.Huffman, h.name, h.value)),
                     encode_header_without_indexing(enc, cfg.Huffman, h.name, h.value))
       \/ \E i \in EIndexes : \E v \in OValues :
             /\ i <= current_max_index(enc)
             /\ Encoded(EncCall("encode_header_without_indexing", FALSE, cfg.Huffman,
                                <<>>, v, i,
                                encode_header_without_indexing_by_index(enc, cfg.Huffman, i, v)),
                        encode_header_without_indexing_by_index(enc, cfg.Huffman, i, v))

\* enc.encode_header_never_indexing<Huffman>(name, value, out), the name a
\* string or an index
EncodeHeaderNeverIndexingOp ==
    /\ steps < MaxEncCalls
    /\ \/ \E h \in EHeaders :
             Encoded(EncCall("encode_header_never_indexing", FALSE, cfg.Huffman,
                             h.name, h.value, 0,
                             encode_header_never_indexing(enc, cfg.Huffman, h.name, h.value)),
                     encode_header_never_indexing(enc, cfg.Huffman, h.name, h.value))
       \/ \E i \in EIndexes : \E v \in OValues :
             /\ i <= current_max_index(enc)
             /\ Encoded(EncCall("encode_header_never_indexing", FALSE, cfg.Huffman,
                                <<>>, v, i,
                                encode_header_never_indexing_by_index(enc, cfg.Huffman, i, v)),
                        encode_header_never_indexing_by_index(enc, cfg.Huffman, i, v))

\* enc.encode_header_and_cache<Huffman>(name, value, out): the caller's choice
\* of a literal with incremental indexing, for any header
EncodeAndCacheCallOp ==
    /\ steps < MaxEncCalls
    /\ \E h \in EHeaders :
          Encoded(EncCall("encode_header_and_cache", TRUE, cfg.Huffman, h.name, h.value, 0,
                          encode_header_and_cache(enc, cfg.Huffman, h.name, h.value)),
                  encode_header_and_cache(enc, cfg.Huffman, h.name, h.value))

\* enc.encode_dynamic_table_size_update(new_size, out)
EncodeSizeUpdateCallOp ==
    /\ steps < MaxEncCalls
    /\ \E n \in WSizes :
          /\ n <= enc.user_protocol_max_size
          /\ Encoded(EncCall("encode_dynamic_table_size_update", FALSE, FALSE, <<>>, <<>>, n,
                             encode_dynamic_table_size_update(enc, n)),
                     encode_dynamic_table_size_update(enc, n))

NextEnc ==
    \/ EncodeCallOp
    \/ EncodeHeaderFullyIndexedOp
    \/ EncodeHeaderWithoutIndexingOp
    \/ EncodeHeaderNeverIndexingOp
    \/ EncodeAndCacheCallOp
    \/ EncodeSizeUpdateCallOp

SpecEnc == InitEnc /\ [][NextEnc]_vars

-----------------------------------------------------------------------------
(* decode_response_status on the blocks of responses, and encode_status *)

\* values sent under ":status": "200", "555", "007", "2ab", "-12", "a12",
\* "+12", "20", "2000"
SValues == {<<50, 48, 48>>, <<53, 53, 53>>, <<48, 48, 55>>, <<50, 97, 98>>,
            <<45, 49, 50>>, <<97, 49, 50>>, <<43, 49, 50>>, <<50, 48>>,
            <<50, 48, 48, 48>>}

\* the first header of a response: an index of the static table (the seven
\* of ":status" and ":method" "GET"), the newest dynamic entry, and literals
\* with the name ":status" by index or as a string, or with another name
SHeaderReps ==
    {FRep(<<128 + i>>, StaticTable[i].name, StaticTable[i].value, FALSE, 0, 0) :
        i \in DOMAIN StatusCases \cup {2}}
    \cup {FRep(<<190>>, StatusName, <<53, 53, 53>>, FALSE, 1, 0)}
    \cup {FRep(encode_integer(U32(status_200), 4, 0) \o encode_string(FALSE, v),
               StatusName, v, FALSE, 0, 0) : v \in SValues}
    \cup {FRep(encode_integer(U32(status_200), 4, 16) \o encode_string(TRUE, <<50, 48, 48>>),
               StatusName, <<50, 48, 48>>, FALSE, 0, 0),
          FRep(encode_integer(U32(status_200), 6, 64) \o encode_string(FALSE, <<53, 53, 53>>),
               StatusName, <<53, 53, 53>>, FALSE, 0, 1),
          FRep(<<0>> \o encode_string(FALSE, StatusName) \o encode_string(FALSE, <<52, 48, 52>>),
               StatusName, <<52, 48, 52>>, FALSE, 0, 0),
          FRep(<<0>> \o encode_string(FALSE, HX1.name) \o encode_string(FALSE, <<50, 48, 48>>),
               HX1.name, <<50, 48, 48>>, FALSE, 0, 0)}

\* what can stand before the first header: a size update that keeps one
\* entry, a literal with the empty name
SUpdate == FRep(encode_integer(U32(50), 5, 32), <<>>, <<>>, TRUE, 0, 0)
SEmptyName ==
    FRep(<<0>> \o encode_string(FALSE, HEmptyName.name)
              \o encode_string(FALSE, HEmptyName.value),
         HEmptyName.name, HEmptyName.value, FALSE, 0, 0)

SPrefixes == {<<>>, <<SUpdate>>, <<SUpdate, SUpdate>>, <<SEmptyName>>}

\* what follows the first header: nothing, or one more header
SRest == {<<>>, <<FRep(<<130>>, HMethodGet.name, HMethodGet.value, FALSE, 0, 0)>>}

\* the blocks: the empty one, size updates only, and a first header with
\* something before it and after it
StatusBlocks ==
    SPrefixes \cup
    {p \o <<h>> \o r : p \in SPrefixes \ {<<SEmptyName>>}, h \in SHeaderReps, r \in SRest}
    \cup {<<SEmptyName, h>> : h \in SHeaderReps}

SSizes2 == {100}

\* the last call of decode_response_status: the block, the table before it,
\* the status returned, the cursor and what the call threw
StatusCall(b, r) ==
    [name |-> "decode_response_status", block |-> b, pre |-> dec,
     ret |-> r.status, pos |-> r.pos, err |-> r.err]

InitStatus == InitWire(SSizes2) /\ cfg = [Cache |-> FALSE, Huffman |-> FALSE]

\* dec.decode_response_status(in, e) on a block whose dynamic index, if it
\* has one, names an entry of the table
DecodeResponseStatusOp ==
    /\ steps < MaxStatusCalls
    /\ steps' = steps + 1
    /\ \E b \in StatusBlocks : \E g \in BOOLEAN : \E u \in ShiftOutcomes :
          /\ \A i \in 1..Len(b) : b[i].needs <= Len(dec.entries) + FAdded(b, i)
          /\ dec' = decode_response_status(dec, FOctets(b, 1), 1, g, u).tab
          /\ op' = StatusCall(b, decode_response_status(dec, FOctets(b, 1), 1, g, u))
    /\ UNCHANGED <<dstr, cfg, enc, sdec, wire, stream, sent, recv, srecv, derr, serr,
                   tab, other, ref, onlyAdds>>

\* status codes the static table has, and two it has not
EStatus == {200, 204, 206, 304, 400, 404, 500, 201, 555}

\* enc.encode_status(status, out)
EncodeStatusCallOp ==
    /\ steps < MaxStatusCalls
    /\ \E status \in EStatus : \E g \in BOOLEAN :
          Encoded(EncCall("encode_status", TRUE, FALSE, StatusName, to_chars(status),
                          status, encode_status(enc, status, g)),
                  encode_status(enc, status, g))

NextStatus ==
    \/ DecodeResponseStatusOp
    \/ EncodeStatusCallOp

SpecStatus == InitStatus /\ [][NextStatus]_vars

-----------------------------------------------------------------------------
(* ignore_headers_block and decode_headers_block on the same decoder *)

\* the representations of the blocks: a literal with incremental indexing,
\* the index of the newest dynamic entry, a literal without indexing, and
\* size updates to 0, to 20 and to 100
IgnoreReps ==
    {FRep(<<64>> \o encode_string(FALSE, HX1.name) \o encode_string(FALSE, HX1.value),
          HX1.name, HX1.value, FALSE, 0, 1),
     FRep(<<190>>, HX1.name, HX1.value, FALSE, 1, 0),
     FRep(<<0>> \o encode_string(FALSE, HX2.name) \o encode_string(FALSE, HX2.value),
          HX2.name, HX2.value, FALSE, 0, 0)}
    \cup {FRep(encode_integer(U32(n), 5, 32), <<>>, <<>>, TRUE, 0, 0) : n \in {0, 20, 100}}

IgnoreBlocks == UNION {[1..n -> IgnoreReps] : n \in 1..MaxReps}

ISizes == {0, 100}

\* the last call on the decoder: the function, the block, the table before
\* it, the outcomes of the undefined reads it made, and what it threw
BlockCall(name, b, g, u, r) ==
    [name |-> name, block |-> b, pre |-> dec, g |-> g, u |-> u, err |-> r.err]

InitIgnore == InitWire(ISizes) /\ cfg = [Cache |-> FALSE, Huffman |-> FALSE]

\* ignore_headers_block(dec, bytes)
IgnoreHeadersBlockOp ==
    /\ steps < MaxBlockCalls
    /\ steps' = steps + 1
    /\ \E b \in IgnoreBlocks : \E g \in BOOLEAN : \E u \in ShiftOutcomes :
          /\ dec' = ignore_headers_block(dec, FOctets(b, 1), g, u).tab
          /\ op' = BlockCall("ignore_headers_block", b, g, u,
                             ignore_headers_block(dec, FOctets(b, 1), g, u))
    /\ UNCHANGED <<dstr, cfg, enc, sdec, wire, stream, sent, recv, srecv, derr, serr,
                   tab, other, ref, onlyAdds>>

\* decode_headers_block(dec, bytes, visitor)
DecodeBlockCallOp ==
    /\ steps < MaxBlockCalls
    /\ steps' = steps + 1
    /\ \E b \in IgnoreBlocks : \E g \in BOOLEAN : \E u \in ShiftOutcomes :
          /\ dec' = decode_headers_block(dec, FOctets(b, 1), g, u).tab
          /\ op' = BlockCall("decode_headers_block", b, g, u,
                             decode_headers_block(dec, FOctets(b, 1), g, u))
    /\ UNCHANGED <<dstr, cfg, enc, sdec, wire, stream, sent, recv, srecv, derr, serr,
                   tab, other, ref, onlyAdds>>

NextIgnore ==
    \/ IgnoreHeadersBlockOp
    \/ DecodeBlockCallOp

SpecIgnore == InitIgnore /\ [][NextIgnore]_vars

-----------------------------------------------------------------------------
(* A size update sent by an encoder to a decoder whose table is in the     *)
(* same state                                                              *)

\* the last call on the encoder: dyntab before it, the decoder's table and
\* the number of headers its visitor had received at that time, and the
\* octets written
ResizeCall(name, n, r) ==
    [name |-> name, arg_n |-> n, pre |-> enc, predec |-> dec, nrecv |-> Len(recv),
     out |-> r.out]

\* the encoder wrote r.out once the decoder had read all that was written
\* before
Resized(call, r) ==
    /\ wire = <<>>
    /\ derr = "ok"
    /\ steps' = steps + 1
    /\ enc' = r.tab
    /\ wire' = r.out
    /\ op' = call
    /\ UNCHANGED <<dstr, cfg, dec, sdec, stream, sent, recv, srecv, derr, serr,
                   tab, other, ref, onlyAdds>>

InitResize == InitWire(OSizes) /\ cfg = [Cache |-> FALSE, Huffman |-> FALSE]

\* enc.encode_header_and_cache<false>(name, value, out)
ResizeInsertOp ==
    /\ steps < MaxResizeOps
    /\ \E h \in OHeaders :
          Resized(ResizeCall("encode_header_and_cache", 0,
                             encode_header_and_cache(enc, FALSE, h.name, h.value)),
                  encode_header_and_cache(enc, FALSE, h.name, h.value))

\* enc.encode_dynamic_table_size_update(new_size, out), new_size within the
\* limit of the protocol
ResizeUpdateOp ==
    /\ steps < MaxResizeOps
    /\ \E n \in WSizes :
          /\ n <= enc.user_protocol_max_size
          /\ Resized(ResizeCall("encode_dynamic_table_size_update", n,
                                encode_dynamic_table_size_update(enc, n)),
                     encode_dynamic_table_size_update(enc, n))

\* decode_headers_block(dec, bytes, visitor) on the octets of the last call
ResizeDecodeOp ==
    /\ DecodeHeadersBlockOp
    /\ op.name # "init"

NextResize ==
    \/ ResizeInsertOp
    \/ ResizeUpdateOp
    \/ ResizeDecodeOp

SpecResize == InitResize /\ [][NextResize]_vars

-----------------------------------------------------------------------------
(* Properties of the dynamic table *)

\* the (name, value) pairs the table is driven with
TPairs == {[name |-> n, value |-> v] : n \in TNames, v \in TValues}

\* the entries in index order 62, 63, ... as get_entry shows them
Shown(t) == [k \in 1..Len(t.entries) |->
               [name |-> get_entry(t, first_unused_index + k - 1).name,
                value |-> get_entry(t, first_unused_index + k - 1).value]]

\* C4: after every add_entry, update_size, set_user_protocol_max_size and
\* reset, whether it returned or threw, current_size() <= max_size().
C4_CurrentLeMax == tab.current_size <= tab.max_size

\* C4 witness: an add_entry that had to evict left a non-empty table.
C4_Witness ==
    /\ op.name = "add_entry"
    /\ op.ret = first_unused_index
    /\ Len(tab.entries) < Len(op.pre.entries) + 1
    /\ tab.current_size > 0

\* C5 (as claimed): max_size() <= user_protocol_max_size() for every table,
\* after any public operation, moves included.
C5_MaxLeProtocolMax ==
    /\ tab.max_size <= tab.user_protocol_max_size
    /\ other.max_size <= other.user_protocol_max_size

\* C6: while a table has only seen add_entry calls, get_entry(62), (63), ...
\* are the reference deque's contents front to back, and current_size() is
\* the reference's byte total.
C6_MatchesReference ==
    onlyAdds => /\ Shown(tab) = ref.d
                /\ tab.current_size = ref.cur_size
                /\ tab.current_size = SizeOf(tab.entries)

\* C6 witness: the reference holds two entries after an eviction.
C6_Witness ==
    /\ onlyAdds
    /\ Len(ref.d) = 2
    /\ tab.insert_count > 2
    /\ ref.d[1] # ref.d[2]

\* C7: add_entry of an entry larger than max_size returns 0 and leaves the
\* table empty with current_size 0 and max_size as before.
C7_OversizeClears ==
    (op.name = "add_entry"
       /\ Len(op.arg_name) + Len(op.arg_value) + 32 > op.pre.max_size)
    => /\ op.ret = 0
       /\ tab.entries = <<>>
       /\ tab.set = <<>>
       /\ tab.current_size = 0
       /\ tab.max_size = op.pre.max_size

\* C7 witness: an oversize add_entry on a table that held an entry.
C7_Witness ==
    /\ op.name = "add_entry"
    /\ Len(op.arg_name) + Len(op.arg_value) + 32 > op.pre.max_size
    /\ op.pre.entries # <<>>

C9_FindAfterAdd ==
    op.name = "add_entry" =>
        LET r == find(tab, op.arg_name, op.arg_value)
        IN IF Len(op.arg_name) + Len(op.arg_value) + 32 <= op.pre.max_size
           THEN r = [header_name_index |-> first_unused_index, value_indexed |-> TRUE]
           ELSE r = NotFound

\* C9 witness: the pair just added is in the table twice.
C9_Witness ==
    /\ op.name = "add_entry"
    /\ op.ret = first_unused_index
    /\ \E k \in 1..(Len(tab.entries) - 1) :
          /\ tab.entries[k].name = op.arg_name
          /\ tab.entries[k].value = op.arg_value

-----------------------------------------------------------------------------
(* Properties of the encoder and the decoders *)

\* the state of a table the peers have to agree on
Agreed(t) == [entries |-> Shown(t), current_size |-> t.current_size,
              max_size |-> t.max_size]

\* C1: once decode_headers_block has decoded without error all the octets that
\* encode<Cache, Huffman> wrote for the headers H, the visitor has received
\* exactly H, in order.
C1_RoundTrip ==
    (wire = <<>> /\ derr = "ok") => recv = sent

\* C2: once the decoder has processed every octet the encoder produced, the
\* two dynamic tables hold the same entries in the same index order and have
\* equal current_size and max_size.
C2_TablesAgree ==
    (wire = <<>> /\ derr = "ok") => Agreed(enc) = Agreed(dec)

\* C3: once the same octets have been fed in chunks to stream_decoder::feed
\* and decoded by decode_headers_block, both without error, the two visitors
\* have received the same headers and the two decoders' tables are equal.
C3_ChunkedAsBlock ==
    (wire = <<>> /\ stream = <<>> /\ derr = "ok" /\ serr = "ok")
        => srecv = recv /\ Agreed(sdec.tab) = Agreed(dec)

\* C10: update_size(new_max) with new_max above user_protocol_max_size(),
\* called directly or by decode_header for a size update, throws a protocol
\* error and leaves entries, current_size and max_size as they were.
C10_UpdateAboveLimitRejected ==
    (op.name \in {"update_size", "decode_size_update"}
       /\ op.arg_n > op.pre.user_protocol_max_size)
        => /\ op.err = "protocol_error"
           /\ tab.entries = op.pre.entries
           /\ tab.current_size = op.pre.current_size
           /\ tab.max_size = op.pre.max_size

\* C10 witness: a decoded size update above the limit was rejected by a table
\* that holds an entry.
C10_Witness ==
    /\ op.name = "decode_size_update"
    /\ op.arg_n > op.pre.user_protocol_max_size
    /\ op.err = "protocol_error"
    /\ Len(tab.entries) > 0

-----------------------------------------------------------------------------
(* Properties of decode_header and of the integer and string codecs *)

\* A natural number as [top, hi, lo] = top * 2^32 + hi * 2^16 + lo with
\* hi, lo < 65536 (numbers from 2^31 on are beyond the integers of the checker)
BigNorm(top, hi, lo) ==
    [top |-> top + ((hi + (lo \div 65536)) \div 65536),
     hi |-> (hi + (lo \div 65536)) % 65536,
     lo |-> lo % 65536]

\* a + x * 2^M for x < 256
BigAdd(a, x, M) ==
    IF M < 16 THEN BigNorm(a.top, a.hi, a.lo + x * Pow2(M))
    ELSE IF M < 32 THEN BigNorm(a.top, a.hi + x * Pow2(M - 16), a.lo)
    ELSE BigNorm(a.top + x * Pow2(M - 32), a.hi, a.lo)

Big(n) == BigNorm(0, 0, n)

\* the number the continuation octets from pos on add to a: every octet gives
\* seven bits, least significant group first, up to the first octet below 128
RECURSIVE DenotedTail(_, _, _, _)
DenotedTail(bytes, pos, a, M) ==
    IF pos > Len(bytes) THEN a
    ELSE IF bytes[pos] >= 128
         THEN DenotedTail(bytes, pos + 1, BigAdd(a, bytes[pos] % 128, M), M + 7)
         ELSE BigAdd(a, bytes[pos], M)

\* the number an N-bit prefix integer at the head of bytes denotes (RFC 7541
\* section 5.1)
Denoted(bytes, N) ==
    IF bytes[1] % Pow2(N) < Pow2(N) - 1 THEN Big(bytes[1] % Pow2(N))
    ELSE DenotedTail(bytes, 2, Big(Pow2(N) - 1), 0)

\* a > n for a number n of the checker below 65536
BigGreater(a, n) == a.top > 0 \/ a.hi > 0 \/ a.lo > n

\* C11: decode_header raises a protocol error, and gives no header, for an
\* indexed representation of index 0 and for every representation whose index
\* is greater than 61 + the number of entries of the dynamic table.
C11_BadIndexRejected ==
    (op.name \in {k.kind : k \in RawKinds}
       /\ \/ op.name = "indexed" /\ Denoted(op.arg_value, op.arg_n) = Big(0)
          \/ BigGreater(Denoted(op.arg_value, op.arg_n),
                        first_unused_index - 1 + Len(op.pre.entries)))
        => op.err = "protocol_error" /\ recv = <<>>

\* C12: decode_integer on the octets encode_integer wrote for v with an N-bit
\* prefix, 1 <= N <= 8, returns v and leaves the cursor right after the last
\* octet written, whatever follows.
C12_IntegerRoundTrip ==
    (op.name = "decode_integer" /\ op.from = "encode_integer")
        => op.err = "ok" /\ op.val = op.v /\ op.pos = op.len + 1

\* C12 witness: 2^32 - 1 with a 1-bit prefix came back over six octets that
\* other octets follow.
C12_Witness ==
    /\ op.name = "decode_integer"
    /\ op.from = "encode_integer"
    /\ op.v = [hi |-> 65535, lo |-> 65535]
    /\ op.N = 1
    /\ op.len = 6
    /\ Len(wire) > op.len
    /\ op.val = op.v

\* C13: decode_integer raises a protocol error whenever the octets (prefix
\* and continuation octets, the last one below 128) denote a number above
\* 2^32 - 1.
C13_OverflowRejected ==
    (op.name = "decode_integer" /\ op.err # "incomplete"
       /\ Denoted(wire, op.N).top > 0)
        => op.err = "protocol_error"

\* C14: decode_string on the octets encode_string<false>(s) or
\* encode_string<true>(s) wrote returns s and leaves the cursor right after
\* the last octet written.
C14_StringRoundTrip ==
    (op.name = "decode_string" /\ op.from = "encode_string")
        => op.err = "ok" /\ op.val = op.s /\ op.pos = op.len + 1

\* C14 witness: a Huffman-coded string with a 30-bit code and padding came
\* back, with an octet following it in the input.
C14_Witness ==
    /\ op.name = "decode_string"
    /\ op.from = "encode_string"
    /\ op.H
    /\ op.s = <<48, 10, 120>>
    /\ Len(wire) > op.len
    /\ op.val = op.s

-----------------------------------------------------------------------------
(* Properties of stream_decoder::feed and of the visitor *)

\* the octets of the first k representations of the block
RECURSIVE FEnd(_, _)
FEnd(b, k) == IF k = 0 THEN 0 ELSE FEnd(b, k - 1) + Len(b[k].octets)

\* the representations of the block that are complete in its first n octets
FDone(n) == Cardinality({k \in 1..Len(sent) : FEnd(sent, k) <= n})

\* the first n octets of the block end inside a representation
FInside(n) == \E k \in 1..Len(sent) : FEnd(sent, k - 1) < n /\ n < FEnd(sent, k)

\* the headers of the representations i..j of the block, size updates left out
RECURSIVE FHeaders(_, _, _)
FHeaders(b, i, j) ==
    IF i > j THEN <<>>
    ELSE (IF b[i].update THEN <<>> ELSE <<[name |-> b[i].name, value |-> b[i].value]>>)
             \o FHeaders(b, i + 1, j)

\* the octets of the block given to feed up to and with the last call
FGiven == op.given + Len(op.chunk)

\* C16: a call of feed with last_chunk = true, after which the octets
\* received (pending ones and the chunk, of any length, zero included) end
\* inside a representation, throws incomplete_data_error
C16_TruncationFatal ==
    (op.name = "feed" /\ op.last_chunk /\ FInside(FGiven)) => op.err = "incomplete"

\* C17: a call of feed with last_chunk = false, after which the octets
\* received end inside a representation, returns a hint > 0, has given the
\* visitor each header completed by the chunk once and in order, and keeps
\* as pending exactly the octets from the first of the cut representation on
C17_SuspendKeepsTail ==
    (op.name = "feed" /\ ~op.last_chunk /\ FInside(FGiven))
        => /\ op.err = "ok"
           /\ op.ret > 0
           /\ op.out = FHeaders(sent, FDone(op.given) + 1, FDone(FGiven))
           /\ sdec.incomplete
                 = SubSeq(FOctets(sent, 1), FEnd(sent, FDone(FGiven)) + 1, FGiven)

\* C18: a call of feed that returns 0 without an error has given the visitor,
\* once and in wire order, the (name, value) of every representation the
\* chunk completed that is not a size update, and decode_headers_block that
\* returns without an error has given it those of the whole block
C18_VisitorOncePerHeader ==
    /\ (op.name = "feed" /\ op.err = "ok" /\ op.ret = 0)
          => op.out = FHeaders(sent, FDone(op.given) + 1, FDone(FGiven))
    /\ (wire = <<>> /\ derr = "ok") => recv = FHeaders(sent, 1, Len(sent))

-----------------------------------------------------------------------------
(* Properties of the representation the encoder writes *)

\* the indexes of the static entries that hold the pair, and the name
EStaticPairs(n, v) ==
    {i \in 1..(first_unused_index - 1) : StaticTable[i] = [name |-> n, value |-> v]}

EStaticNames(n) == {i \in 1..(first_unused_index - 1) : StaticTable[i].name = n}

\* the indexes of the entries of the dynamic table t that hold the pair, and
\* the name
EDynPairs(t, n, v) ==
    {i \in first_unused_index..current_max_index(t) :
        get_entry(t, i).name = n /\ get_entry(t, i).value = v}

EDynNames(t, n) ==
    {i \in first_unused_index..current_max_index(t) : get_entry(t, i).name = n}

\* an indexed representation with an index of S
EIndexedOut(S) == {encode_integer(U32(i), 7, 128) : i \in S}

\* a literal with the name index of S and the value v: with incremental
\* indexing when Cache, without indexing otherwise
ELiteralOut(S, Cache, H, v) ==
    {encode_integer(U32(i), IF Cache THEN 6 ELSE 4, IF Cache THEN 64 ELSE 0)
        \o encode_string(H, v) : i \in S}

\* a literal with a new name
ENewNameOut(Cache, H, n, v) ==
    {<<IF Cache THEN 64 ELSE 0>> \o encode_string(H, n) \o encode_string(H, v)}

\* the representations the priority order allows for the pair (n, v) and the
\* dynamic table t
EByPriority(t, Cache, H, n, v) ==
    IF EStaticPairs(n, v) # {} THEN EIndexedOut(EStaticPairs(n, v))
    ELSE IF EDynPairs(t, n, v) # {} THEN EIndexedOut(EDynPairs(t, n, v))
    ELSE IF EStaticNames(n) # {} THEN ELiteralOut(EStaticNames(n), Cache, H, v)
    ELSE IF EDynNames(t, n) # {} THEN ELiteralOut(EDynNames(t, n), Cache, H, v)
    ELSE ENewNameOut(Cache, H, n, v)

EFrame(t) == <<[k \in 1..Len(t.entries) |->
                   [name |-> t.entries[k].name, value |-> t.entries[k].value]],
               t.current_size, t.max_size>>

\* C20: encode_header_fully_indexed, encode_header_without_indexing,
\* encode_header_never_indexing and encode with Cache = false leave the
\* entries, current_size and max_size of the encoder's table as they were,
\* and so does encode with Cache = true when it writes an indexed
\* representation
C20_TableChangesOnlyOnInsert ==
    (\/ op.name \in {"encode_header_fully_indexed", "encode_header_without_indexing",
                     "encode_header_never_indexing"}
     \/ op.name = "encode" /\ ~op.Cache
     \/ op.name = "encode" /\ op.Cache /\ op.out[1] >= 128)
        => EFrame(enc) = EFrame(op.pre)

\* encode<true> wrote the index of a dynamic entry, and the table holds entries
C20_Witness ==
    /\ op.name = "encode"
    /\ op.Cache
    /\ op.out = <<190>>
    /\ Len(op.pre.entries) = 2
    /\ enc = op.pre

-----------------------------------------------------------------------------
(* Properties of decode_response_status and encode_status *)

\* the first representation of the block from i on that is no size update,
\* 0 when there is none
RECURSIVE SFirst(_, _)
SFirst(b, i) ==
    IF i > Len(b) THEN 0 ELSE IF ~b[i].update THEN i ELSE SFirst(b, i + 1)

\* exactly three decimal digits
SThreeDigits(v) == Len(v) = 3 /\ \A i \in 1..3 : v[i] \in 48..57

\* the number three decimal digits denote
SNumber(v) == (v[1] - 48) * 100 + (v[2] - 48) * 10 + (v[3] - 48)

\* the first header of the block is ":status" with three decimal digits
SWellFormed(b, k) ==
    k # 0 /\ b[k].name = StatusName /\ SThreeDigits(b[k].value)

\* C21: decode_response_status returns a status v only when the first header
\* of the block that is no size update is ":status" with a value of exactly
\* three decimal digits that denote v, and throws a protocol error for any
\* other name and any other value
C21_StatusOnlyThreeDigits ==
    op.name = "decode_response_status"
        => /\ op.err = "ok"
                => /\ SWellFormed(op.block, SFirst(op.block, 1))
                   /\ op.ret = SNumber(op.block[SFirst(op.block, 1)].value)
           /\ ~SWellFormed(op.block, SFirst(op.block, 1)) => op.err = "protocol_error"

-----------------------------------------------------------------------------
(* Properties of ignore_headers_block *)

\* C22: ignore_headers_block leaves the entries, current_size and max_size
\* of the decoder's table as decode_headers_block leaves them, called on the
\* same block and the same table
C22_IgnoreKeepsState ==
    op.name = "ignore_headers_block"
        => EFrame(dec)
              = EFrame(decode_headers_block(op.pre, FOctets(op.block, 1), op.g, op.u).tab)

-----------------------------------------------------------------------------
(* Properties of the dynamic table size update *)

\* the size of the entries k.. of the table t
RECURSIVE ESizeFrom(_, _)
ESizeFrom(t, k) ==
    IF k > Len(t.entries) THEN 0
    ELSE Len(t.entries[k].name) + Len(t.entries[k].value) + 32 + ESizeFrom(t, k + 1)

\* the entries of t that survive a maximum size of n: the newest ones that
\* fit, as many as fit
ESurvivors(t, n) ==
    LET k == CHOOSE j \in 1..(Len(t.entries) + 1) :
                 /\ ESizeFrom(t, j) <= n
                 /\ j > 1 => ESizeFrom(t, j - 1) > n
    IN SubSeq(t.entries, k, Len(t.entries))

\* C23: encode_dynamic_table_size_update(n), n <= user_protocol_max_size,
\* writes the 5-bit prefix integer n under the pattern 001 and applies
\* update_size(n) to the encoder's table; once a decoder whose table was in
\* the same state has decoded the octets, both tables have max_size = n and
\* the same surviving entries, and the visitor has received no header
C23_SizeUpdateBothSides ==
    op.name = "encode_dynamic_table_size_update"
        => /\ op.out[1] \in 32..63
           /\ Denoted(op.out, 5) = Big(op.arg_n)
           /\ enc.max_size = op.arg_n
           /\ enc.entries = ESurvivors(op.pre, op.arg_n)
           /\ (wire = <<>> /\ EFrame(op.predec) = EFrame(op.pre))
                 => /\ derr = "ok"
                    /\ dec.max_size = op.arg_n
                    /\ dec.entries = ESurvivors(op.pre, op.arg_n)
                    /\ Len(recv) = op.nrecv

\* a size update to 40 in two octets has evicted the older of two entries on
\* both sides
C23_Witness ==
    /\ op.name = "encode_dynamic_table_size_update"
    /\ op.arg_n = 40
    /\ op.out = <<63, 9>>
    /\ Len(op.pre.entries) = 2
    /\ wire = <<>>
    /\ Len(dec.entries) = 1
    /\ dec.entries = enc.entries

-----------------------------------------------------------------------------
(* Properties of the hint feed returns *)

\* C24: a call of feed with a non-empty chunk that returns, returns 0 exactly
\* when no octet is pending after it and a value > 0 exactly when it has
\* held back a non-empty tail
C24_HintIffPending ==
    (op.name = "feed" /\ op.chunk # <<>> /\ op.err = "ok")
        => /\ op.ret = 0 <=> Len(sdec.incomplete) = 0
           /\ op.ret > 0 <=> Len(sdec.incomplete) > 0

\* a chunk completed one header and ended inside the next
C24_Witness ==
    /\ op.name = "feed"
    /\ op.chunk # <<>>
    /\ op.err = "ok"
    /\ op.ret > 0
    /\ op.out # <<>>
    /\ Len(sdec.incomplete) > 1

\* the octets of the representation the chunk ended in that feed has been
\* given
FCut == FGiven - FEnd(sent, FDone(FGiven))

\* C25: when the octets given to feed (last_chunk = false) end after the
\* length L of a string and before its last octet, decode_string throws
\* incomplete_data_error with required = L - available, feed returns it as
\* the hint, and pending_data_size() + hint is the number of octets from the
\* first of the current header to the last of that string
C25_StringHintExact ==
    (op.name = "feed" /\ ~op.last_chunk /\ op.chunk # <<>> /\ FInside(FGiven))
        => \A s \in sent[FDone(FGiven) + 1].strs :
              (s.from - 1 <= FCut /\ FCut < s.to)
                 => /\ op.err = "ok"
                    /\ op.ret = s.to - FCut
                    /\ Len(sdec.incomplete) + op.ret = s.to

\* a chunk ended after the first octet of the value "GET"
C25_Witness ==
    /\ op.name = "feed"
    /\ ~op.last_chunk
    /\ FInside(FGiven)
    /\ sent[FDone(FGiven) + 1].value = HMethodGet.value
    /\ FCut = 3
    /\ op.ret = 2
    /\ Len(sdec.incomplete) = 3

-----------------------------------------------------------------------------
(* Properties of the padding of Huffman-coded strings *)

\* the bits encode_string<true> wrote after the codes of the string
EPadding ==
    SubSeq(BitsOfBytes(SubSeq(wire, op.len - ((Len(HuffmanBits(op.s)) + 7) \div 8) + 1, op.len)),
           Len(HuffmanBits(op.s)) + 1, 8 * ((Len(HuffmanBits(op.s)) + 7) \div 8))

\* C26: decode_string on a Huffman-coded payload whose bits after the last
\* complete symbol are more than 7, or at most 7 and not all 1, throws a
\* protocol error; it returns the string exactly when those bits are 0 to 7
\* 1-bits. encode_string<true> ends every payload with 0 to 7 1-bits, in the
\* octet the last code ends in.
C26_PaddingChecked ==
    /\ (op.name = "decode_string" /\ op.from = "raw_pad")
          => /\ op.err \in {"ok", "protocol_error"}
             /\ op.err = "ok" <=> (Len(op.left) <= 7 /\ \A i \in 1..Len(op.left) : op.left[i] = 1)
             /\ op.err = "ok" => op.val = op.s
    /\ (op.name = "encode_string" /\ op.H)
          => /\ Len(EPadding) <= 7
             /\ \A i \in 1..Len(EPadding) : EPadding[i] = 1
             /\ SubSeq(wire, 1, op.len)
                   = encode_integer(U32((Len(HuffmanBits(op.s)) + 7) \div 8), 7, 128)
                        \o BytesOfBits(HuffmanBits(op.s) \o EPadding)

\* C26 witness: a payload of the eight 1-bits of one octet was rejected
C26_Witness ==
    /\ op.name = "decode_string"
    /\ op.from = "raw_pad"
    /\ op.s = <<>>
    /\ op.left = <<1, 1, 1, 1, 1, 1, 1, 1>>
    /\ op.err = "protocol_error"

-----------------------------------------------------------------------------
(* Properties of the indexed ":status" *)

\* the status codes of the static table, in the order of their indexes
\* 8 .. 14
SevenStatus == <<200, 204, 206, 304, 400, 404, 500>>

\* C27: on a block whose first octet is the indexed field of one of the
\* static entries ":status" 200, 204, 206, 304, 400, 404, 500,
\* decode_response_status returns that status, leaves the cursor right after
\* that octet and the dynamic table as it was; encode_status of these seven
\* codes writes that one octet.
C27_IndexedStatus ==
    \A k \in 1..7 :
       /\ (op.name = "decode_response_status" /\ op.block # <<>>
             /\ op.block[1].octets = <<135 + k>>)
            => /\ op.err = "ok"
               /\ op.ret = SevenStatus[k]
               /\ op.pos = 2
               /\ dec = op.pre
       /\ (op.name = "encode_status" /\ op.arg_n = SevenStatus[k])
            => op.out = <<135 + k>>

\* C27 witness: ":status" 404 by index, with a header after it and an entry
\* in the dynamic table
C27_Witness ==
    /\ op.name = "decode_response_status"
    /\ Len(op.block) = 2
    /\ op.block[1].octets = <<141>>
    /\ op.ret = 404
    /\ op.pos = 2
    /\ dec.entries # <<>>

-----------------------------------------------------------------------------
(* Properties of the index of an entry over its life *)

\* the entries of the table before the last call that are still in the table
Survivors == {i \in 1..Len(op.pre.entries) :
                 \E j \in 1..Len(tab.entries) :
                     tab.entries[j].insert_c = op.pre.entries[i].insert_c}

\* C28 as stated: after a successful add_entry the index of every entry it
\* did not evict is lower than before
C28_IndexDecreases ==
    (op.name = "add_entry" /\ op.ret # 0)
        => \A i \in Survivors :
              indexof(tab, op.pre.entries[i]) < indexof(op.pre, op.pre.entries[i])

\* C28: within the life of an entry its index grows as newer entries are
\* inserted: after a successful add_entry the index of every entry it did
\* not evict is higher by one than before, get_entry at that index returns
\* the entry, and the new entry has the index first_unused_index
C28_IndexIncreases ==
    (op.name = "add_entry" /\ op.ret # 0)
        => /\ \A i \in Survivors :
                 /\ indexof(tab, op.pre.entries[i]) = indexof(op.pre, op.pre.entries[i]) + 1
                 /\ get_entry(tab, indexof(tab, op.pre.entries[i])) = op.pre.entries[i]
                 /\ get_entry(op.pre, indexof(op.pre, op.pre.entries[i])) = op.pre.entries[i]
           /\ indexof(tab, tab.entries[Len(tab.entries)]) = first_unused_index

\* C28 witness: an add_entry evicted the oldest entry and kept another,
\* whose index went from 62 to 63
C28_Witness ==
    /\ op.name = "add_entry"
    /\ op.ret # 0
    /\ Len(op.pre.entries) = 2
    /\ Survivors = {2}
    /\ indexof(op.pre, op.pre.entries[2]) = first_unused_index
    /\ indexof(tab, op.pre.entries[2]) = first_unused_index + 1

-----------------------------------------------------------------------------
(* Properties of set_user_protocol_max_size *)

\* the smaller of two numbers
Min(a, b) == IF a < b THEN a ELSE b

\* C29: set_user_protocol_max_size(c) does not throw: where it calls
\* update_size, update_size(c) finds c within the limit.  After it
\* user_protocol_max_size() = c, max_size() = min(max_size() before, c), the
\* entries are the newest ones of before that fit in max_size(), as many
\* as fit, and current_size() is their size; for c >= max_size() before,
\* the entries and max_size() are unchanged.
C29_ProtocolMaxLowersMax ==
    op.name = "set_user_protocol_max_size"
        => /\ update_size([op.pre EXCEPT !.user_protocol_max_size = op.arg_n], op.arg_n).err = "ok"
           /\ tab.user_protocol_max_size = op.arg_n
           /\ tab.max_size = Min(op.pre.max_size, op.arg_n)
           /\ tab.entries = ESurvivors(op.pre, tab.max_size)
           /\ tab.current_size = ESizeFrom(tab, 1)
           /\ tab.current_size <= tab.max_size
           /\ op.arg_n >= op.pre.max_size
                 => tab.entries = op.pre.entries /\ tab.max_size = op.pre.max_size

\* C29 witness: a limit below max_size evicted the oldest of two entries
C29_Witness ==
    /\ op.name = "set_user_protocol_max_size"
    /\ op.arg_n < op.pre.max_size
    /\ Len(op.pre.entries) = 2
    /\ Len(tab.entries) = 1
    /\ tab.entries[1] = op.pre.entries[2]
    /\ tab.max_size = op.arg_n

-----------------------------------------------------------------------------
(* Properties of what each representation does to the decoder's table *)

\* C30: decode_header on an indexed field, a literal without indexing or a
\* literal never indexed leaves the dynamic table of the decoder as it was
\* (entries, current_size, max_size), whether it returns or throws; an entry
\* is inserted by a literal with incremental indexing alone, and max_size
\* is changed by a size update alone.
C30_TableEffectByKind ==
    op.name \in {"indexed", "incremental", "never", "without", "update"}
        => /\ op.name \in {"indexed", "never", "without"}
                 => /\ dec.entries = op.pre.entries
                    /\ dec.current_size = op.pre.current_size
                    /\ dec.max_size = op.pre.max_size
                    /\ dec = op.pre
           /\ (\E i \in 1..Len(dec.entries) :
                  \A j \in 1..Len(op.pre.entries) :
                     dec.entries[i].insert_c # op.pre.entries[j].insert_c)
                 => op.name = "incremental"
           /\ dec.insert_count # op.pre.insert_count => op.name = "incremental"
           /\ dec.max_size # op.pre.max_size => op.name = "update"

\* C30 witness: a literal without indexing, name by the index of a dynamic
\* entry, was decoded by a decoder with two entries and left them alone
C30_Witness ==
    /\ op.name = "without"
    /\ op.err = "ok"
    /\ op.arg_value[1] = 15
    /\ recv # <<>>
    /\ Len(op.pre.entries) = 2
    /\ dec = op.pre

-----------------------------------------------------------------------------
(* Properties of the lookups of the static table *)

\* the indexes of the static table
StaticIndexes == 1..(first_unused_index - 1)

\* the entries of the static table with the name n
Named(n) == {i \in StaticIndexes : StaticTable[i].name = n}

\* the smallest index of the name n, 0 when the table has not the name
Smallest(n) ==
    IF Named(n) = {} THEN 0 ELSE CHOOSE i \in Named(n) : \A j \in Named(n) : i <= j

\* C31: find(n) returns the smallest index whose name is n, 0 for a name
\* the table has not; find(n, v) returns (i, true) when entry i has the
\* name n and the non-empty value v, and (the smallest index of n, false)
\* when no entry named n has the value v and when v is empty.
C31_StaticFind ==
    /\ op.name = "find(name)" => op.ret = Smallest(op.arg_name)
    /\ op.name = "find(name, value)"
          => /\ \A i \in Named(op.arg_name) :
                   (StaticTable[i].value = op.arg_value /\ op.arg_value # <<>>)
                      => op.ret = i /\ op.value_indexed
             /\ ((\A i \in Named(op.arg_name) : StaticTable[i].value # op.arg_value)
                    \/ op.arg_value = <<>>)
                   => op.ret = Smallest(op.arg_name) /\ ~op.value_indexed

\* C31 witness: find(":status", "404") gave the index 13, not the first
\* index of ":status"
C31_Witness ==
    /\ op.name = "find(name, value)"
    /\ op.arg_name = StatusName
    /\ op.arg_value = <<52, 48, 52>>
    /\ op.ret = 13
    /\ op.value_indexed
    /\ Smallest(op.arg_name) = 8

\* C32: for an index i of the static table and a value v, find(i, v) gives
\* the value_indexed of find(name of entry i, v) and an index whose entry
\* has the name of entry i; that index is i when no entry of that name has
\* the value v; find(0, v) and find(i, v) for i >= 62 give (0, false).
C32_FindByIndexAgrees ==
    op.name = "find(index, value)"
        => /\ op.arg_n \in StaticIndexes
                 => /\ op.value_indexed
                          = static_find(StaticTable[op.arg_n].name, op.arg_value).value_indexed
                    /\ op.ret \in Named(StaticTable[op.arg_n].name)
                    /\ (\A j \in Named(StaticTable[op.arg_n].name) :
                           StaticTable[j].value # op.arg_value)
                          => op.ret = op.arg_n
                    /\ op.value_indexed => StaticTable[op.ret].value = op.arg_value
           /\ op.arg_n \notin StaticIndexes => op.ret = 0 /\ ~op.value_indexed

\* C32 witness: find(path_index_html, "/") gave the index of ":path" "/"
C32_Witness ==
    /\ op.name = "find(index, value)"
    /\ op.arg_n = 5
    /\ op.arg_value = <<47>>
    /\ op.ret = 4
    /\ op.value_indexed

-----------------------------------------------------------------------------
(* Properties of decode_string on the octets of the test huffman_encode_eos *)

\* the octets 85 FE 3F FF FF FF: a Huffman-coded string of five octets, the
\* code of "!" and the code of EOS
BangEOS == <<133, 254, 63, 255, 255, 255>>

-----------------------------------------------------------------------------
(* an encoder used through encode<true> and size updates only              *)

InitCache == InitWire(WSizes) /\ cfg = [Cache |-> TRUE, Huffman |-> FALSE]

NextCache ==
    \/ EncodeOp(EHeaders, MaxHeaders)
    \/ EncodeDynamicTableSizeUpdateOp(MaxHeaders)

SpecCache == InitCache /\ [][NextCache]_vars

-----------------------------------------------------------------------------
(* C34: the buffer of a decoded_string *)

\* the last call was decode_string of a Huffman payload that did not throw
HuffmanDecoded == op.name = "decode_string" /\ op.H /\ op.err = "ok"

PowerOfTwo(n) == \E k \in 0..16 : n = 2 ^ k

\* C34 as stated: a Huffman payload of L octets decoded into a decoded_string
\* reuses the buffer (same storage, same bytes_allocated()) if it is large
\* enough, and otherwise leaves a buffer whose size is a power of two with
\* bytes_allocated() >= ceil(8 * L / 5)
C34_CeilAllocated ==
    HuffmanDecoded =>
        \/ dstr.data = op.pre.data /\ bytes_allocated(dstr) = bytes_allocated(op.pre)
        \/ /\ PowerOfTwo(bytes_allocated(dstr))
           /\ 5 * bytes_allocated(dstr) >= 8 * Len(op.payload)

\* C34 amended: a Huffman payload of L octets decoded into a decoded_string
\* reuses the buffer (same storage, same bytes_allocated()) if and only if
\* the buffer has at least floor(8 * L / 5) octets; otherwise a new buffer is
\* allocated whose size is the smallest power of two that is at least
\* floor(8 * L / 5), and in both cases the decoded string fits in the buffer.
\* A decode that throws leaves the storage and bytes_allocated() as they were
C34_FloorAllocated ==
    /\ HuffmanDecoded =>
          /\ dstr.sz = Len(op.val)
          /\ dstr.sz <= bytes_allocated(dstr)
          /\ IF bytes_allocated(op.pre) >= (8 * Len(op.payload)) \div 5
             THEN dstr.data = op.pre.data /\ bytes_allocated(dstr) = bytes_allocated(op.pre)
             ELSE /\ dstr.data \notin {op.pre.data, 0, -1}
                  /\ PowerOfTwo(bytes_allocated(dstr))
                  /\ bytes_allocated(dstr) >= (8 * Len(op.payload)) \div 5
                  /\ bytes_allocated(dstr) < 2 * ((8 * Len(op.payload)) \div 5)
    /\ op.name = "decode_string" /\ op.err # "ok" => dstr = op.pre

\* a payload of 4 octets was decoded into a buffer of 1 octet that an
\* earlier decode allocated, and the buffer was replaced by one of 8 octets
C34_Witness ==
    /\ HuffmanDecoded
    /\ Len(op.payload) = 4
    /\ bytes_allocated(op.pre) = 1
    /\ bytes_allocated(dstr) = 8
    /\ dstr.data # op.pre.data

\* a buffer that is large enough was used again
C34_Reused ==
    /\ HuffmanDecoded
    /\ Len(op.payload) = 2
    /\ bytes_allocated(op.pre) = 8
    /\ dstr.data = op.pre.data

\* a decode that threw after it allocated
C34_Restored ==
    /\ op.name = "decode_string" /\ op.err # "ok"
    /\ Len(op.payload) = 4
    /\ bytes_allocated(op.pre) = 1

-----------------------------------------------------------------------------
(* C35: incomplete_data leaves the dynamic table as it was *)

\* the tables decode_header leaves when it is given the whole representation
\* and the table t
WholeTables(t, octets) ==
    {decode_header(t, octets, 1, g, u).tab : g \in BOOLEAN, u \in ShiftOutcomes}

\* C35: when decode_header throws incomplete_data the dynamic table of the
\* decoder (entries, current_size, max_size) is what it was before the call,
\* and decode_header on the same representation from its first octet then
\* leaves the table that one call on the whole representation leaves
C35_IncompleteKeepsTable ==
    /\ op.name = "prefix" /\ derr = "incomplete" => dec = op.pre
    /\ op.name = "again" => dec \in WholeTables(op.pre, op.arg_value)

\* a literal with incremental indexing was cut when the table held two
\* entries, and read again whole: one entry was evicted and one added
C35_Witness ==
    /\ op.name = "again"
    /\ derr = "ok"
    /\ op.arg_value[1] = 64
    /\ Len(op.pre.entries) = 2
    /\ Len(dec.entries) = 2
    /\ dec.insert_count = op.pre.insert_count + 1

\* a size update was cut after its first octet
C35_UpdateCut ==
    /\ op.name = "prefix"
    /\ derr = "incomplete"
    /\ op.arg_value = <<63>>
    /\ Len(op.pre.entries) > 0

-----------------------------------------------------------------------------
(* C36: the name of an entry that the insertion evicts *)

\* the index the literal last decoded names its header by
NameIndex == Narrow(decode_integer(op.arg_value, 1, 6, "mask")).val

\* the last call decoded a literal with incremental indexing whose name is
\* that of a dynamic entry the insertion destroyed
NamedEntryEvicted ==
    /\ op.name = "incremental"
    /\ op.err = "ok"
    /\ NameIndex >= first_unused_index
    /\ NameIndex <= current_max_index(op.pre)
    /\ ~IsLive(dec, get_entry(op.pre, NameIndex).insert_c)

\* C36: when a literal with incremental indexing names its header by the
\* dynamic index i and the insertion evicts entry i, the name delivered to
\* the caller and the name stored in the new entry are the name entry i had
\* before the eviction
C36_NameOutlivesEviction ==
    NamedEntryEvicted =>
        /\ recv # <<>>
        /\ recv[1].name = get_entry(op.pre, NameIndex).name
        /\ dec.entries # <<>> =>
              dec.entries[Len(dec.entries)].name = get_entry(op.pre, NameIndex).name

-----------------------------------------------------------------------------
(* C37: the first octet decides the representation *)

\* the representation RFC 7541 6 gives the first octet b by its leading bits
LeadingBits(b) ==
    IF b >= 128 THEN "indexed"
    ELSE IF b >= 64 THEN "incremental"
    ELSE IF b >= 32 THEN "update"
    ELSE IF b >= 16 THEN "never"
    ELSE "without"

\* C37: decode_header takes for every first octet 0..255 the branch of the
\* one representation its leading bits name (1xxxxxxx indexed, 01xxxxxx
\* incremental, 001xxxxx size update, 0001xxxx never indexed, 0000xxxx
\* without indexing); the throw `invalid field representation` is never
\* reached and the check `invalid dynamic table size update` never fails
C37_FirstOctetClassified ==
    op.name # "init" =>
        /\ op.name = LeadingBits(op.arg_n)
        /\ op.name # "invalid field representation"
        /\ op.name = "update" => ~size_update_marker_wrong(op.arg_n)

\* a size update was decoded from the first octet 32 and applied
C37_Witness ==
    /\ op.name = "update"
    /\ op.arg_value = <<32>>
    /\ derr = "ok"
    /\ dec.max_size = 0

-----------------------------------------------------------------------------
(* C38: what a move transfers *)

\* C38: a dynamic_table_t made by the move constructor has the entries,
\* current_size, max_size, insert count and user_protocol_max_size its
\* source had (so update_size(n) succeeds on it for every n up to the
\* protocol maximum of the source), and the source is left empty with
\* current_size = 0
C38_MoveTransfersAll ==
    op.name = "move_construct" =>
        /\ tab = op.pre
        /\ \A n \in 0..op.pre.user_protocol_max_size : update_size(tab, n).err = "ok"
        /\ other.entries = <<>>
        /\ other.current_size = 0

-----------------------------------------------------------------------------
(* C39: encode<true> caches no pair twice *)

\* the (name, value) of the entry at position k of the encoder's table
CachedPair(k) == <<enc.entries[k].name, enc.entries[k].value>>

====
